---- MODULE Spec2Model ----
(***************************************************************************)
(* A model of the alumni roster application (src/app.py): the text         *)
(* normalisers (company name, job title, status label), the session cache  *)
(* filled by uploads, and the report operations that filter a cached       *)
(* roster.                                                                 *)
(*                                                                         *)
(* Text is a TLA+ string; a character is a string of length one.  The      *)
(* alphabet is ASCII, on which Python's str.upper, str.lower and           *)
(* str.capitalize act letter by letter.  A Python value is a record        *)
(* [t |-> type name, v |-> text], so that a missing cell (None, NaN) or a  *)
(* number can stand where a string is expected.                            *)
(***************************************************************************)
EXTENDS Integers, Sequences, FiniteSets, TLC

VARIABLES
  arg,           \* the value handed to the normaliser under study
  out,           \* its result
  out2,          \* the result of applying it again to out
  pc,            \* where the normaliser run stands: "input", "once", "twice"; "idle" when none runs
  session_data,      \* the session cache: session id -> cached upload
  graduation_years,  \* the global list of graduation terms, taken from uploads
  result,            \* the request being answered and the handler's response
  now                \* the server's clock, datetime.now(), in hours

vars == << arg, out, out2, pc, session_data, graduation_years, result, now >>

\* The application's state, which a normaliser run leaves alone
appVars == << session_data, graduation_years, result, now >>

\* The normaliser run's state, which the application's handlers leave alone
textVars == << arg, out, out2, pc >>

(***************************************************************************)
(* Bounds                                                                  *)
(***************************************************************************)
\* Blanks put before and after a text to make an input.
MaxPad == 1

(***************************************************************************)
(* Python values                                                           *)
(***************************************************************************)
PyStr(s) == [t |-> "str", v |-> s]
PyNone == [t |-> "NoneType", v |-> ""]
PyNaN == [t |-> "float", v |-> "nan"]
PyInt(s) == [t |-> "int", v |-> s]
PyFloat(s) == [t |-> "float", v |-> s]
Unset == [t |-> "unset", v |-> ""]

\* isinstance(x, str)
IsStr(x) == x.t = "str"

\* As pd_isna, but testing only "x is None": a NaN cell is not recognised
pd_isna_NoneOnly(x) == x = PyNone

\* pd.isna(x) or x is None, for a scalar x
pd_isna(x) == x = PyNone \/ x = PyNaN

(***************************************************************************)
(* Python string methods                                                   *)
(***************************************************************************)
Lowers == "abcdefghijklmnopqrstuvwxyz"
Uppers == "ABCDEFGHIJKLMNOPQRSTUVWXYZ"
Digits == "0123456789"

CharAt(s, i) == SubSeq(s, i, i)

IsIn(c, chars) == \E i \in 1..Len(chars) : CharAt(chars, i) = c

IndexIn(c, chars) == CHOOSE i \in 1..Len(chars) : CharAt(chars, i) = c

\* str.isspace for one character
IsSpace(c) == c \in {" ", "\t", "\n", "\r", "\f"}

UpperChar(c) == IF IsIn(c, Lowers) THEN CharAt(Uppers, IndexIn(c, Lowers)) ELSE c

LowerChar(c) == IF IsIn(c, Uppers) THEN CharAt(Lowers, IndexIn(c, Uppers)) ELSE c

RECURSIVE Upper(_)
\* str.upper
Upper(s) == IF s = "" THEN "" ELSE UpperChar(Head(s)) \o Upper(Tail(s))

RECURSIVE Lower(_)
\* str.lower
Lower(s) == IF s = "" THEN "" ELSE LowerChar(Head(s)) \o Lower(Tail(s))

\* str.capitalize: the first character upper-cased, the rest lower-cased
Capitalize(s) == IF s = "" THEN "" ELSE UpperChar(Head(s)) \o Lower(Tail(s))

RECURSIVE LStrip(_)
LStrip(s) == IF s # "" /\ IsSpace(Head(s)) THEN LStrip(Tail(s)) ELSE s

RECURSIVE RStrip(_)
RStrip(s) ==
  IF s # "" /\ IsSpace(CharAt(s, Len(s))) THEN RStrip(SubSeq(s, 1, Len(s) - 1)) ELSE s

\* str.strip
Strip(s) == RStrip(LStrip(s))

\* s.startswith(p)
StartsWith(s, p) == Len(p) <= Len(s) /\ SubSeq(s, 1, Len(p)) = p

\* sub in s
Contains(s, sub) ==
  \E i \in 1..(Len(s) - Len(sub) + 1) : SubSeq(s, i, i + Len(sub) - 1) = sub

RECURSIVE Replace(_, _, _)
\* s.replace(old, new), old not empty: every occurrence, left to right, no overlap
Replace(s, old, new) ==
  IF Len(s) < Len(old) THEN s
  ELSE IF StartsWith(s, old)
       THEN new \o Replace(SubSeq(s, Len(old) + 1, Len(s)), old, new)
       ELSE Head(s) \o Replace(Tail(s), old, new)

\* The elements of a list
Range(seq) == {seq[i] : i \in 1..Len(seq)}

(***************************************************************************)
(* normalize_company_name                                                  *)
(***************************************************************************)
empty_patterns ==
  << [category |-> "COMPLETELY EMPTY",
      patterns |-> << "", "-", ".", " ", "...", "*", "#", "//" >>],
     [category |-> "PLACEHOLDER",
      patterns |-> << "#N/A", "N/A", "NA", "N.A.", "N/A.", "NONE", "NIL", "NOT APPLICABLE", "NOT AVAILABLE", "UNKNOWN" >>],
     [category |-> "CONFIDENTIAL",
      patterns |-> << "CONFIDENTIAL", "CONFIDENTIAL GOVERNMENT", "GOVERNMENT", "GOVERNMENT SECTOR", "CONFIDENTIAL (STEALTH MODE)", "CONFIDENTIAL ( STEALTH MODE )", "CONFIDENTIAL COMPANY", "CANNOT DISCLOSE", "UNDISCLOSED" >>],
     [category |-> "OTHERS",
      patterns |-> << "OTHERS", "OTHER", "MISC", "MISCELLANEOUS", "TBD", "TO BE DETERMINED", "PENDING" >>],
     [category |-> "NOT WORKING",
      patterns |-> << "NOT WORKING", "UNEMPLOYED", "NO JOB", "NO WORK", "LOOKING FOR JOB", "SEEKING EMPLOYMENT" >>] >>

company_aliases ==
  ("SNB" :> "SAUDI NATIONAL BANK")
  @@ ("SAUDI NATIONAL BANK" :> "SAUDI NATIONAL BANK")
  @@ ("SNB CAPITAL" :> "SAUDI NATIONAL BANK")
  @@ ("THE SAUDI NATIONAL BANK" :> "SAUDI NATIONAL BANK")
  @@ ("NCB" :> "SAUDI NATIONAL BANK")
  @@ ("BSF" :> "BANQUE SAUDI FRANSI")
  @@ ("BANQUE SAUDI FRANSI" :> "BANQUE SAUDI FRANSI")
  @@ ("BANQUE SAUDI FRANSI CAPITAL" :> "BANQUE SAUDI FRANSI")
  @@ ("FRANSI CAPITAL" :> "BANQUE SAUDI FRANSI")
  @@ ("SAB" :> "SAUDI BRITISH BANK")
  @@ ("SABB" :> "SAUDI BRITISH BANK")
  @@ ("BANK SAB" :> "SAUDI BRITISH BANK")
  @@ ("PIF" :> "PUBLIC INVESTMENT FUND")
  @@ ("PUBLIC INVESTMENT FUND - PIF" :> "PUBLIC INVESTMENT FUND")
  @@ ("SAMA" :> "SAUDI CENTRAL BANK")
  @@ ("SAUDI CENTRAL BANK - SAMA" :> "SAUDI CENTRAL BANK")
  @@ ("SIDF" :> "SAUDI INDUSTRIAL DEVELOPMENT FUND")
  @@ ("SAUDI INDUSTRIAL DEVELOPMENT FUND - SIDF" :> "SAUDI INDUSTRIAL DEVELOPMENT FUND")
  @@ ("BCG" :> "BOSTON CONSULTING GROUP")
  @@ ("BOSTON CONSULTING GROUP (BCG)" :> "BOSTON CONSULTING GROUP")
  @@ ("EY" :> "ERNST & YOUNG")
  @@ ("ERNST & YOUNG (EY)" :> "ERNST & YOUNG")
  @@ ("PWC" :> "PRICEWATERHOUSECOOPERS")
  @@ ("KFSH&RC" :> "KING FAISAL SPECIALIST HOSPITAL & RESEARCH CENTER")
  @@ ("KFSHRC" :> "KING FAISAL SPECIALIST HOSPITAL & RESEARCH CENTER")
  @@ ("KFSH" :> "KING FAISAL SPECIALIST HOSPITAL & RESEARCH CENTER")
  @@ ("KING FAISAL SPECIALIST HOSPITAL" :> "KING FAISAL SPECIALIST HOSPITAL & RESEARCH CENTER")
  @@ ("HABIB" :> "DR. SULAIMAN AL HABIB MEDICAL GROUP")
  @@ ("DR. SULAIMAN AL HABIB" :> "DR. SULAIMAN AL HABIB MEDICAL GROUP")
  @@ ("STC" :> "SAUDI TELECOM COMPANY")
  @@ ("SAUDI TELECOM" :> "SAUDI TELECOM COMPANY")
  @@ ("HPE" :> "HEWLETT PACKARD ENTERPRISE")
  @@ ("HEWLETT PACKARD ENTERPRISE - HPE" :> "HEWLETT PACKARD ENTERPRISE")
  @@ ("ARAMCO" :> "SAUDI ARAMCO")
  @@ ("SAUDI ARAMCO" :> "SAUDI ARAMCO")
  @@ ("SABIC" :> "SAUDI BASIC INDUSTRIES CORPORATION")
  @@ ("MINISTRY OF HEALTH" :> "MINISTRY OF HEALTH")
  @@ ("MINISTRY OF HEALTH " :> "MINISTRY OF HEALTH")

remove_words ==
  << "LTD", "LIMITED", "CORPORATION", "CORP", "INC", "LLC", "CO", "COMPANY", "GROUP", "HOLDING", "HOLDINGS", "INTERNATIONAL", "SAUDI ARABIA", "KSA", "MIDDLE EAST" >>

\* The category of the first entry of empty_patterns, from index i on, that lists
\* name; "" when none does
RECURSIVE EmptyCategoryFrom(_, _)
EmptyCategoryFrom(name, i) ==
  IF i > Len(empty_patterns) THEN ""
  ELSE IF name \in Range(empty_patterns[i].patterns) THEN empty_patterns[i].category
       ELSE EmptyCategoryFrom(name, i + 1)

\* The loop over remove_words, from index i on
RECURSIVE RemoveWordsFrom(_, _)
RemoveWordsFrom(name, i) ==
  IF i > Len(remove_words) THEN name
  ELSE RemoveWordsFrom(Replace(name, " " \o remove_words[i], ""), i + 1)

\* The part of normalize_company_name after the two table lookups
StripSuffixWords(name) ==
  LET residual == RemoveWordsFrom(name, 1)
  IN  IF Contains(residual, "NATIONAL GUARD") /\ Contains(residual, "HEALTH")
        THEN "MINISTRY OF NATIONAL GUARD HEALTH AFFAIRS"
      ELSE IF Contains(residual, "KING FAHAD MEDICAL") THEN "KING FAHAD MEDICAL CITY"
      ELSE Strip(residual)

\* What is returned for a value that is neither missing nor a string
InvalidTypeResult == "EMPTY (INVALID TYPE)"

\* As NormalizeText, but comparing the raw text: no strip, no upper
NormalizeText_Raw(raw) ==
  LET category == EmptyCategoryFrom(raw, 1)
  IN  IF category # "" THEN "EMPTY (" \o category \o ")"
      ELSE IF raw \in DOMAIN company_aliases THEN company_aliases[raw]
      ELSE StripSuffixWords(raw)

\* What is returned for a string: raw is the cell text
NormalizeText(raw) ==
  LET name == Upper(Strip(raw))
      category == EmptyCategoryFrom(name, 1)
  IN  IF category # "" THEN "EMPTY (" \o category \o ")"
      ELSE IF name \in DOMAIN company_aliases THEN company_aliases[name]
      ELSE StripSuffixWords(name)

normalize_company_name(name) ==
  IF pd_isna(name) THEN "EMPTY (NULL)"
  ELSE IF ~IsStr(name) THEN InvalidTypeResult
  ELSE NormalizeText(name.v)

(***************************************************************************)
(* Inputs of the normalisers                                               *)
(***************************************************************************)
RECURSIVE Blanks(_)
Blanks(n) == IF n = 0 THEN "" ELSE " " \o Blanks(n - 1)

\* A text as a cell may hold it: as written or in lower case, with up to MaxPad
\* blanks on either side, or wrapped in a tab and a line break
Spellings(s) ==
  {Blanks(l) \o c \o Blanks(r) : l \in 0..MaxPad, r \in 0..MaxPad, c \in {s, Lower(s)}}
    \cup {"\t" \o s \o "\n"}

\* Values that are not strings
NonStrings == {PyNone, PyNaN, PyInt("0"), PyInt("42"), PyFloat("3.5")}

EmptyLiterals == UNION {Range(empty_patterns[i].patterns) : i \in 1..Len(empty_patterns)}

AliasTargets == {company_aliases[k] : k \in DOMAIN company_aliases}

Sentinels ==
  {"EMPTY (NULL)", "EMPTY (INVALID TYPE)"}
    \cup {"EMPTY (" \o empty_patterns[i].category \o ")" : i \in 1..Len(empty_patterns)}

\* Company names that are in neither table
OtherCompanies ==
  {"ACME " \o remove_words[i] : i \in 1..Len(remove_words)}
    \cup {"ACME CONSULTING", "ACME INCUBATOR", "ACME COLLEGE", "ARAMCO LTD",
          "STC KSA", "LTD ACME", "ALFAISAL UNIVERSITY", "NATIONAL GUARD HEALTH AFFAIRS",
          "KING FAHAD MEDICAL COMPLEX", "HEALTH CO NATIONAL GUARD", "ACME  LTD",
          "ACME CO LTD", "X -", "MINISTRY OF HEALTH KSA"}

CompanyTexts ==
  EmptyLiterals \cup DOMAIN company_aliases \cup AliasTargets \cup Sentinels
    \cup OtherCompanies

CompanyInputs ==
  NonStrings \cup {PyStr(t) : t \in UNION {Spellings(s) : s \in CompanyTexts}}

(***************************************************************************)
(* The session cache and the last result, before any request               *)
(***************************************************************************)
NoSessions == << >>
NoResult == [op |-> "none"]

\* The application as the module's top level leaves it: nothing uploaded
AppStart ==
  /\ session_data = NoSessions
  /\ graduation_years = {}
  /\ result = NoResult
  /\ now = 0

(***************************************************************************)
(* Company names: a cell is normalised, and the result normalised again    *)
(***************************************************************************)
InitCompany ==
  /\ arg \in CompanyInputs
  /\ out = Unset
  /\ out2 = Unset
  /\ pc = "input"
  /\ AppStart

NormalizeCompany ==
  /\ pc = "input"
  /\ out' = PyStr(normalize_company_name(arg))
  /\ pc' = "once"
  /\ UNCHANGED << arg, out2 >>
  /\ UNCHANGED appVars

NormalizeCompanyAgain ==
  /\ pc = "once"
  /\ out2' = PyStr(normalize_company_name(out))
  /\ pc' = "twice"
  /\ UNCHANGED << arg, out >>
  /\ UNCHANGED appVars

NextCompany == NormalizeCompany \/ NormalizeCompanyAgain

SpecCompany == InitCompany /\ [][NextCompany]_vars

\* A text of blanks only, the empty text included
IsBlank(s) == \A i \in 1..Len(s) : IsSpace(CharAt(s, i))

\* C1: normalising a company name twice gives what normalising it once gives,
\* for every input: normalize(normalize(x)) = normalize(x).
C1_Idempotent == pc = "twice" => out2 = out

\* C2, as claimed: every missing, non-string or blank input is normalised to
\* "EMPTY (NULL)".
C2_AllEmptyNull ==
  (pc # "input" /\ (~IsStr(arg) \/ IsBlank(arg.v))) => out = PyStr("EMPTY (NULL)")

\* C2, amended: a missing input (None, NaN) gives "EMPTY (NULL)", any other
\* non-string input gives "EMPTY (INVALID TYPE)", and a blank string gives
\* "EMPTY (COMPLETELY EMPTY)".
C2_EmptyByKind ==
  pc # "input" =>
    /\ (arg \in {PyNone, PyNaN} => out = PyStr("EMPTY (NULL)"))
    /\ (~IsStr(arg) /\ arg \notin {PyNone, PyNaN} => out = PyStr("EMPTY (INVALID TYPE)"))
    /\ (IsStr(arg) /\ IsBlank(arg.v) => out = PyStr("EMPTY (COMPLETELY EMPTY)"))

\* A whitespace-only cell has been normalised
C2_Witness ==
  /\ pc = "once"
  /\ IsStr(arg) /\ arg.v # "" /\ IsBlank(arg.v)
  /\ out = PyStr("EMPTY (COMPLETELY EMPTY)")

\* C3: a string is trimmed and upper-cased first; a literal of the empty table
\* then gives "EMPTY (<its category>)", and otherwise a key of the alias table
\* gives its canonical name.  "SNB" gives "SAUDI NATIONAL BANK", "" gives
\* "EMPTY (COMPLETELY EMPTY)" and "N/A" gives "EMPTY (PLACEHOLDER)", in any case
\* and with blanks around.
C3_TableLookup ==
  (pc # "input" /\ IsStr(arg)) =>
    LET name == Upper(Strip(arg.v))
    IN  /\ \A i \in 1..Len(empty_patterns) :
             name \in Range(empty_patterns[i].patterns)
               => out = PyStr("EMPTY (" \o empty_patterns[i].category \o ")")
        /\ (name \notin EmptyLiterals /\ name \in DOMAIN company_aliases)
             => out = PyStr(company_aliases[name])
        /\ arg.v \in {"SNB", "snb", " SNB", "snb ", " snb ", "\tSNB\n"}
             => out = PyStr("SAUDI NATIONAL BANK")
        /\ arg.v \in {"", " ", "  "} => out = PyStr("EMPTY (COMPLETELY EMPTY)")
        /\ arg.v \in {"N/A", "n/a", " n/a ", "\tN/A\n"} => out = PyStr("EMPTY (PLACEHOLDER)")

\* A lower-case, padded alias key has been resolved
C3_Witness == pc = "once" /\ arg = PyStr(" snb ") /\ out = PyStr("SAUDI NATIONAL BANK")

(***************************************************************************)
(* is_high_position                                                        *)
(***************************************************************************)
\* The titles that stand for "no title"
placeholder_positions == {"-", "N/A", "NA", "NONE", "NOT APPLICABLE", "UNKNOWN"}

\* The key -> canonical title table, in the order the dictionary is written
high_position_mapping ==
  << << "CEO", "CHIEF EXECUTIVE OFFICER" >>,
     << "CHIEF EXECUTIVE OFFICER", "CHIEF EXECUTIVE OFFICER" >>,
     << "PRESIDENT", "PRESIDENT" >>,
     << "CFO", "CHIEF FINANCIAL OFFICER" >>,
     << "CHIEF FINANCIAL OFFICER", "CHIEF FINANCIAL OFFICER" >>,
     << "CTO", "CHIEF TECHNOLOGY OFFICER" >>,
     << "CHIEF TECHNOLOGY OFFICER", "CHIEF TECHNOLOGY OFFICER" >>,
     << "CIO", "CHIEF INFORMATION OFFICER" >>,
     << "CHIEF INFORMATION OFFICER", "CHIEF INFORMATION OFFICER" >>,
     << "COO", "CHIEF OPERATING OFFICER" >>,
     << "CHIEF OPERATING OFFICER", "CHIEF OPERATING OFFICER" >>,
     << "CMO", "CHIEF MARKETING OFFICER" >>,
     << "CHIEF MARKETING OFFICER", "CHIEF MARKETING OFFICER" >>,
     << "CHIEF", "CHIEF" >>,
     << "DIRECTOR", "DIRECTOR" >>,
     << "EXECUTIVE DIRECTOR", "EXECUTIVE DIRECTOR" >>,
     << "MANAGING DIRECTOR", "MANAGING DIRECTOR" >>,
     << "BOARD MEMBER", "BOARD MEMBER" >>,
     << "VP", "VICE PRESIDENT" >>,
     << "VICE PRESIDENT", "VICE PRESIDENT" >>,
     << "SVP", "SENIOR VICE PRESIDENT" >>,
     << "SENIOR VICE PRESIDENT", "SENIOR VICE PRESIDENT" >>,
     << "EVP", "EXECUTIVE VICE PRESIDENT" >>,
     << "EXECUTIVE VICE PRESIDENT", "EXECUTIVE VICE PRESIDENT" >>,
     << "HEAD", "HEAD" >>,
     << "DEPARTMENT HEAD", "DEPARTMENT HEAD" >>,
     << "DIVISION HEAD", "DIVISION HEAD" >>,
     << "GENERAL MANAGER", "GENERAL MANAGER" >>,
     << "PARTNER", "PARTNER" >>,
     << "SENIOR MANAGER", "SENIOR MANAGER" >>,
     << "PRINCIPAL", "PRINCIPAL" >>,
     << "FOUNDER", "FOUNDER" >>,
     << "CO-FOUNDER", "CO-FOUNDER" >>,
     << "OWNER", "OWNER" >> >>

\* The keywords that need a leadership context, and the context words
context_keywords == {"HEAD", "CHIEF", "OWNER"}
leadership_context == {"OF", "DEPARTMENT", "DIVISION", "TEAM"}

\* The keyword length below which the context is asked for
ContextKeywordLen == 5

\* A character the regular expression class \w matches
IsWordChar(c) == IsIn(c, Uppers) \/ IsIn(c, Lowers) \/ IsIn(c, Digits) \/ c = "_"

IsWordAt(s, j) == j \in 1..Len(s) /\ IsWordChar(CharAt(s, j))

\* The regular expression \b matches before position j of s (after the last
\* character when j = Len(s) + 1)
WordBoundary(s, j) == IsWordAt(s, j - 1) # IsWordAt(s, j)

\* As re_search_word, without the two \b: keyword anywhere in s
re_search_substring(keyword, s) == Contains(s, keyword)

\* re.search(r'\b' + re.escape(keyword) + r'\b', s) finds a match
re_search_word(keyword, s) ==
  \E i \in 1..(Len(s) - Len(keyword) + 1) :
    /\ SubSeq(s, i, i + Len(keyword) - 1) = keyword
    /\ WordBoundary(s, i)
    /\ WordBoundary(s, i + Len(keyword))

\* The canonical title of an exact key
ExactPosition(position) ==
  LET i == CHOOSE j \in 1..Len(high_position_mapping) :
             high_position_mapping[j][1] = position
  IN  high_position_mapping[i][2]

IsExactPosition(position) ==
  \E j \in 1..Len(high_position_mapping) : high_position_mapping[j][1] = position

\* The scan over the table's keys, from index i on
RECURSIVE ScanPositionFrom(_, _)
ScanPositionFrom(position, i) ==
  IF i > Len(high_position_mapping) THEN PyNone
  ELSE LET keyword == high_position_mapping[i][1]
           normalized == high_position_mapping[i][2]
       IN  IF re_search_word(keyword, position)
             THEN IF keyword \in context_keywords /\ Len(keyword) < ContextKeywordLen
                    THEN IF \E context \in leadership_context : Contains(position, context)
                           THEN PyStr(normalized)
                           ELSE ScanPositionFrom(position, i + 1)
                    ELSE PyStr(normalized)
             ELSE ScanPositionFrom(position, i + 1)

is_high_position(position) ==
  IF pd_isna(position) \/ ~IsStr(position) THEN PyNone
  ELSE LET title == Upper(Strip(position.v))
       IN  IF title = "" \/ title \in placeholder_positions THEN PyNone
           ELSE IF IsExactPosition(title) THEN PyStr(ExactPosition(title))
           ELSE ScanPositionFrom(title, 1)

(***************************************************************************)
(* Job titles: a cell is classified                                        *)
(***************************************************************************)
PositionKeys == {high_position_mapping[i][1] : i \in 1..Len(high_position_mapping)}

\* Titles around each key: alone, as a word among others, inside a longer word
TitleTexts ==
  UNION {{k, "IT " \o k, k \o "Y", "X" \o k, k \o " OF SALES", k \o "-ELECT", k \o "_2"}
           : k \in PositionKeys}
    \cup placeholder_positions
    \cup {"", "IT Director", "Directory Administrator", "Head of Department", "Head Chef",
          "Chief Engineer", "Store Owner", "Headmaster", "Head Professor", "Team Head",
          "Division Chief", "Software Engineer", "Assistant to the CEO", "CEO/Founder",
          "Vice President and Director", "Owner and Director"}

TitleInputs ==
  NonStrings \cup {PyStr(t) : t \in UNION {Spellings(s) : s \in TitleTexts}}

InitTitle ==
  /\ arg \in TitleInputs
  /\ out = Unset
  /\ out2 = Unset
  /\ pc = "input"
  /\ AppStart

ClassifyTitle ==
  /\ pc = "input"
  /\ out' = is_high_position(arg)
  /\ pc' = "once"
  /\ UNCHANGED << arg, out2 >>
  /\ UNCHANGED appVars

NextTitle == ClassifyTitle

SpecTitle == InitTitle /\ [][NextTitle]_vars

\* key stands in title as whole words: no letter, digit or underscore touches it
WholeWordIn(key, title) ==
  \E i \in 1..(Len(title) - Len(key) + 1) :
    /\ SubSeq(title, i, i + Len(key) - 1) = key
    /\ (i = 1 \/ ~IsWordChar(CharAt(title, i - 1)))
    /\ (i + Len(key) - 1 = Len(title) \/ ~IsWordChar(CharAt(title, i + Len(key))))

\* C4: keys are matched as whole words only.  A classified title holds, as whole
\* words, a key of the canonical form returned; "IT Director" gives "DIRECTOR",
\* "Directory Administrator" gives None, "Head of Department" gives "HEAD",
\* "Head Chef" gives None; missing, non-string, blank and placeholder titles give
\* None.
C4_WholeWords ==
  pc = "once" =>
    /\ (~IsStr(arg) => out = PyNone)
    /\ IsStr(arg) =>
         LET title == Upper(Strip(arg.v))
         IN  /\ (IsBlank(arg.v) \/ title \in placeholder_positions) => out = PyNone
             /\ out # PyNone =>
                  \E j \in 1..Len(high_position_mapping) :
                    /\ high_position_mapping[j][2] = out.v
                    /\ WholeWordIn(high_position_mapping[j][1], title)
             /\ arg.v \in {"IT Director", "it director", " IT Director "}
                  => out = PyStr("DIRECTOR")
             /\ arg.v \in {"Directory Administrator", "directory administrator"}
                  => out = PyNone
             /\ arg.v \in {"Head of Department", "head of department"} => out = PyStr("HEAD")
             /\ arg.v \in {"Head Chef", "head chef", " Head Chef "} => out = PyNone

\* A title holding DIRECTOR only inside a longer word has been classified as no
\* leadership title
C4_Witness == pc = "once" /\ arg = PyStr("Directory Administrator") /\ out = PyNone

\* C5: a scan match of HEAD, CHIEF or OWNER (title not an exact key) is
\* accepted only if the title holds one of OF, DEPARTMENT, DIVISION, TEAM.
C5_ContextRequired ==
  (pc = "once" /\ IsStr(arg) /\ out.v \in context_keywords
     /\ ~IsExactPosition(Upper(Strip(arg.v))))
    => \E context \in leadership_context : Contains(Upper(Strip(arg.v)), context)

(***************************************************************************)
(* clean_status                                                            *)
(***************************************************************************)
\* As clean_status, without the strip
clean_status_NoStrip(status) == IF IsStr(status) THEN Capitalize(Lower(status.v)) ELSE "Unknown"

clean_status(status) ==
  IF IsStr(status) THEN Capitalize(Lower(Strip(status.v))) ELSE "Unknown"

expected_current_status ==
  << "Employed", "Employed - add to list", "Business owner", "Training",
     "Do not contact", "Others", "Left the country", "Passed away", "Unemployed",
     "Studying", "New graduate" >>

(***************************************************************************)
(* Status labels: a cell is canonicalised, and the result canonicalised    *)
(* again                                                                   *)
(***************************************************************************)
StatusTexts ==
  Range(expected_current_status)
    \cup {Upper(s) : s \in Range(expected_current_status)}
    \cup {"", "-", "Retired", "Unknown", "x", "1st job", "employed  - Add To List",
          "NEW\tGRADUATE", "  EMPLOYED ", "_pending", "Self Employed"}

StatusInputs ==
  NonStrings \cup {PyStr(t) : t \in UNION {Spellings(s) : s \in StatusTexts}}

InitStatus ==
  /\ arg \in StatusInputs
  /\ out = Unset
  /\ out2 = Unset
  /\ pc = "input"
  /\ AppStart

CleanStatus ==
  /\ pc = "input"
  /\ out' = PyStr(clean_status(arg))
  /\ pc' = "once"
  /\ UNCHANGED << arg, out2 >>
  /\ UNCHANGED appVars

CleanStatusAgain ==
  /\ pc = "once"
  /\ out2' = PyStr(clean_status(out))
  /\ pc' = "twice"
  /\ UNCHANGED << arg, out >>
  /\ UNCHANGED appVars

NextStatus == CleanStatus \/ CleanStatusAgain

SpecStatus == InitStatus /\ [][NextStatus]_vars

\* The text without the blanks before its first and after its last non-blank
Trimmed(s) ==
  IF IsBlank(s) THEN ""
  ELSE LET first == CHOOSE i \in 1..Len(s) :
                      ~IsSpace(CharAt(s, i)) /\ \A j \in 1..(i - 1) : IsSpace(CharAt(s, j))
           last == CHOOSE i \in 1..Len(s) :
                     ~IsSpace(CharAt(s, i)) /\ \A j \in (i + 1)..Len(s) : IsSpace(CharAt(s, j))
       IN  SubSeq(s, first, last)

DataFrame(columns, rows) == [columns |-> columns, rows |-> rows]

HasColumn(df, col) == \E i \in 1..Len(df.columns) : df.columns[i] = col

ColumnIndex(df, col) == CHOOSE i \in 1..Len(df.columns) : df.columns[i] = col

\* row[col] of a row of the frame df
RowCell(df, row, col) == row[ColumnIndex(df, col)]

\* df[col] = values: replaces the column when present, appends it otherwise
SetColumn(df, col, values) ==
  IF HasColumn(df, col)
    THEN [df EXCEPT !.rows =
            [i \in 1..Len(df.rows) |->
               [df.rows[i] EXCEPT ![ColumnIndex(df, col)] = values[i]]]]
    ELSE [columns |-> Append(df.columns, col),
          rows |-> [i \in 1..Len(df.rows) |-> Append(df.rows[i], values[i])]]

\* df[mask], the mask given as the rows to keep
FilterRows(df, keep) ==
  [df EXCEPT !.rows = SelectSeq(df.rows, LAMBDA row : row \in keep)]

\* df.columns.str.strip()
StripColumns(df) ==
  [df EXCEPT !.columns = [i \in 1..Len(df.columns) |-> Strip(df.columns[i])]]

\* series.fillna("").astype(str).str.strip() on one cell
FillStrip(cell) == IF pd_isna(cell) THEN PyStr("") ELSE PyStr(Strip(cell.v))

\* series.str.strip() on one cell: NaN stays NaN
StrStrip(cell) == IF IsStr(cell) THEN PyStr(Strip(cell.v)) ELSE cell

\* series.isin(values) on one cell, values a list of text
IsInList(cell, values) == IsStr(cell) /\ cell.v \in Range(values)

\* series.unique().tolist(): the values in order of first appearance
RECURSIVE Unique(_)
Unique(seq) ==
  IF seq = << >> THEN << >>
  ELSE LET front == Unique(SubSeq(seq, 1, Len(seq) - 1))
           last == seq[Len(seq)]
       IN IF last \in Range(front) THEN front ELSE Append(front, last)

\* [row[col] for each row]
Column(df, col) == [i \in 1..Len(df.rows) |-> RowCell(df, df.rows[i], col)]

\* [x for x in list if x not in other]
Missing(list, df) == SelectSeq(list, LAMBDA col : ~HasColumn(df, col))

\* separator.join(list)
RECURSIVE Join(_, _)
Join(list, separator) ==
  IF list = << >> THEN ""
  ELSE IF Len(list) = 1 THEN list[1]
  ELSE list[1] \o separator \o Join(Tail(list), separator)

EndsWith(s, suffix) ==
  Len(s) >= Len(suffix) /\ SubSeq(s, Len(s) - Len(suffix) + 1, Len(s)) = suffix

AllDigits(s) == \A i \in 1..Len(s) : IsIn(CharAt(s, i), Digits)

\* re.match(r'^[0-9G]\d*$', s) on stripped text
IsValidStudentId(s) ==
  /\ Len(s) >= 1
  /\ (CharAt(s, 1) = "G" \/ IsIn(CharAt(s, 1), Digits))
  /\ AllDigits(SubSeq(s, 2, Len(s)))

\* ---------------------------------------------------------------------------
\* Constants of the application
\* ---------------------------------------------------------------------------

college_options == <<
  "College of Engineering & Advan", "College of Business",
  "College of Science & General S", "College of Medicine",
  "College of Pharmacy" >>

default_graduation_years == <<
  "2010-2011 Spring", "2010-2011 Summer", "2011-2012 Spring",
  "2011-2012 Summer", "2012-2013 FALL", "2012-2013 Spring",
  "2012-2013 Summer", "2013-2014 FALL", "2013-2014 Spring",
  "2013-2014 Summer", "2014-2015 FALL", "2014-2015 Spring",
  "2014-2015 Summer", "2015-2016 FALL", "2015-2016 Spring",
  "2015-2016 Summer", "2016-2017 FALL", "2016-2017 Spring",
  "2016-2017 Summer", "2017-2018 FALL", "2017-2018 Spring",
  "2017-2018 Summer", "2018-2019 FALL", "2018-2019 Spring",
  "2018-2019 Summer", "2019-2020 FALL", "2019-2020 Spring",
  "2019-2020 Summer", "2020-2021 FALL", "2020-2021 Spring",
  "2020-2021 Summer", "2021-2022 FALL", "2021-2022 Spring",
  "2021-2022 Summer", "2022-2023 FALL", "2022-2023 Spring",
  "2022-2023 Summer", "2023-2024 Spring", "2023-2024 FALL",
  "2023-2024 Summer", "2024-2025 FALL" >>

alumni_required_columns == <<
  "College", "Year/Semester of Graduation", "Current Status", "Student ID",
  "Gender", "Major", "Current Workplace", "Current Position" >>

banner_required_columns == <<
  "Student ID", "Student Name", "College", "Graduation Term", "Major", "Gender" >>

optional_columns == <<
  "Nationality", "Industry", "Full Time or Part Time", "Degree",
  "Personal Email", "Phone Number", "Minor", "Concentration", "GPA" >>

NoSessionError == "No data found for your session. Please upload an Excel file first."

NoMatchError == "No matching data found for the given filters."

InvalidFormatError == "Invalid file format. Please upload an Excel file (.xls or .xlsx)"

\* ---------------------------------------------------------------------------
\* load_excel_data: reading an uploaded workbook into the session cache
\* ---------------------------------------------------------------------------

\* The text of every row of df under column col
Texts(df, col) == [i \in 1..Len(df.rows) |-> RowCell(df, df.rows[i], col).v]

is_banner_file(df) == HasColumn(df, "Graduation Term") /\ HasColumn(df, "Student Name")

required_columns(df) ==
  IF is_banner_file(df) THEN banner_required_columns ELSE alumni_required_columns

\* The columns whose cells are filled and trimmed: the required ones and the
\* optional ones the sheet has
FilledColumns(df) ==
  Range(required_columns(df)) \cup {col \in Range(optional_columns) : HasColumn(df, col)}

FillColumns(df) ==
  [df EXCEPT !.rows =
     [i \in 1..Len(df.rows) |->
        [j \in 1..Len(df.columns) |->
           IF df.columns[j] \in FilledColumns(df)
             THEN FillStrip(df.rows[i][j]) ELSE df.rows[i][j]]]]

\* The cleaned columns added for filtering: _College, _Year and, for an
\* Alumni sheet, _CurrentStatus
AddCleanColumns(df) ==
  LET year_column == IF is_banner_file(df) THEN "Graduation Term"
                     ELSE "Year/Semester of Graduation"
      with_college == SetColumn(df, "_College",
        [i \in DOMAIN df.rows |->
           StrStrip(RowCell(df, df.rows[i], "College"))])
      with_year == SetColumn(with_college, "_Year",
        [i \in DOMAIN with_college.rows |->
           StrStrip(RowCell(df, with_college.rows[i], year_column))])
  IN IF is_banner_file(df) THEN with_year
     ELSE SetColumn(with_year, "_CurrentStatus",
        [i \in DOMAIN with_year.rows |->
           PyStr(clean_status(RowCell(df, with_year.rows[i], "Current Status")))])

\* extract_graduation_years reads the sheet again, untouched by the filling:
\* the distinct trimmed terms of an Alumni sheet (their order is not kept
\* here), the default terms with a warning otherwise
extract_graduation_years(raw) ==
  IF HasColumn(raw, "Year/Semester of Graduation")
    THEN [years |-> {Strip(cell.v) :
                       cell \in {c \in Range(Column(raw, "Year/Semester of Graduation")) :
                                   ~pd_isna(c)}},
          warnings |-> << >>]
    ELSE [years |-> Range(default_graduation_years),
          warnings |-> << [kind |-> "year_extraction", count |-> 0, values |-> << >>] >>]

\* graduation_years after the upload: an Alumni sheet's own terms replace it
GlobalYearsAfter(df, years_from_file) ==
  IF years_from_file # {} /\ ~is_banner_file(df) THEN years_from_file
  ELSE graduation_years

years_to_validate(df, years_from_file) ==
  IF years_from_file # {} THEN years_from_file
  ELSE IF GlobalYearsAfter(df, years_from_file) # {}
         THEN GlobalYearsAfter(df, years_from_file)
  ELSE Range(default_graduation_years)

\* A warning that tells the number of records only
Warning_CountOnly(kind, count, values) == [kind |-> kind, count |-> count, values |-> << >>]

\* One warning of the upload: what it is about, how many records, which values
Warning(kind, count, values) == [kind |-> kind, count |-> count, values |-> values]

\* The warnings of a loaded frame, in the order the code appends them
LoadWarnings(raw, df, years_from_file, year_warnings) ==
  LET missing_optional == Missing(optional_columns, raw)
      ids == Texts(df, "Student ID")
      invalid_ids == SelectSeq(ids, LAMBDA id : id # "" /\ ~IsValidStudentId(id))
      invalid_years == SelectSeq(Texts(df, "_Year"),
                         LAMBDA y : y \notin years_to_validate(df, years_from_file))
      invalid_colleges == SelectSeq(Texts(df, "_College"),
                            LAMBDA c : c \notin Range(college_options))
      normalized_expected_statuses ==
        {clean_status(PyStr(expected_current_status[i])) :
           i \in 1..Len(expected_current_status)}
      unexpected_statuses ==
        IF is_banner_file(df) THEN << >>
        ELSE SelectSeq(Texts(df, "_CurrentStatus"),
               LAMBDA s : s \notin normalized_expected_statuses)
  IN (IF missing_optional # << >>
        THEN << Warning("missing_optional", Len(missing_optional), missing_optional) >>
        ELSE << >>)
     \o (IF invalid_ids # << >>
           THEN << Warning("invalid_ids", Len(invalid_ids), << >>) >> ELSE << >>)
     \o year_warnings
     \o (IF invalid_years # << >>
           THEN << Warning("invalid_years", Len(invalid_years), Unique(invalid_years)) >>
           ELSE << >>)
     \o (IF invalid_colleges # << >>
           THEN << Warning("invalid_colleges", Len(invalid_colleges), << >>) >>
           ELSE << >>)
     \o (IF unexpected_statuses # << >>
           THEN << Warning("unexpected_statuses", Len(unexpected_statuses),
                           Unique(unexpected_statuses)) >>
           ELSE << >>)

\* ---------------------------------------------------------------------------
\* Requests and responses
\* ---------------------------------------------------------------------------

NoFrame == DataFrame(<< >>, << >>)

NoRequest == [kind |-> "none"]

NoStats == [kind |-> "none"]

\* What a handler returns, with what it printed and the records its report is
\* made of
Response(op, session_id, request, status, error, selected, file, warnings, printed, stats) ==
  [op |-> op, session_id |-> session_id, request |-> request, status |-> status,
   error |-> error, selected |-> selected, file |-> file, warnings |-> warnings,
   printed |-> printed, stats |-> stats]

\* As Failure, but a file is named all the same
Failure_WithFile(message, printed) ==
  [status |-> "error", error |-> message, selected |-> NoFrame, file |-> "Report.xlsx",
   printed |-> printed, stats |-> NoStats]

\* {"error": message}
Failure(message, printed) ==
  [status |-> "error", error |-> message, selected |-> NoFrame, file |-> "",
   printed |-> printed, stats |-> NoStats]

\* {"status": "success", "file": ...}
Success(selected, file, printed, stats) ==
  [status |-> "success", error |-> "", selected |-> selected, file |-> file,
   printed |-> printed, stats |-> stats]

\* The response of the request being answered
Answer(op, session_id, request, outcome) ==
  Response(op, session_id, request, outcome.status, outcome.error, outcome.selected,
           outcome.file, << >>, outcome.printed, outcome.stats)

\* str(KeyError(column)), the text of a failed column lookup
KeyErrorText(column) == "'" \o column \o "'"

\* ---------------------------------------------------------------------------
\* upload_file
\* ---------------------------------------------------------------------------

MaxSessions == 1

SessionIds == 1..MaxSessions

\* uuid.uuid4().hex: an id no session has; here the least one
FreshSessionId == CHOOSE id \in SessionIds \ DOMAIN session_data :
                    \A other \in SessionIds \ DOMAIN session_data : id <= other

\* session_data[session_id] = {...}
SessionEntry(df, file_name, years_from_file) ==
  [data |-> df, file_name |-> file_name, timestamp |-> now,
   is_banner |-> is_banner_file(df), graduation_years |-> years_from_file]

\* The frame load_excel_data caches for a sheet that has its required columns
LoadedFrame(raw) == AddCleanColumns(FillColumns(raw))

\* The upload is refused before anything is read or cached
UploadRefused(file) ==
  /\ ~(EndsWith(file.filename, ".xls") \/ EndsWith(file.filename, ".xlsx"))
  /\ result' = Response("upload", 0, NoRequest, "error", InvalidFormatError,
                        NoFrame, "", << >>, << >>, NoStats)
  /\ UNCHANGED << session_data, graduation_years >>

\* As UploadFailed, but the session is cached before the failure is returned
UploadFailed_Cached(file) ==
  /\ EndsWith(file.filename, ".xls") \/ EndsWith(file.filename, ".xlsx")
  /\ SessionIds \ DOMAIN session_data # {}
  /\ ~file.readable \/ Missing(required_columns(StripColumns(DataFrame(file.columns, file.rows))),
                                StripColumns(DataFrame(file.columns, file.rows))) # << >>
  /\ result' = Response("upload", 0, NoRequest, "error", "Error loading data",
                        NoFrame, "", << >>, << >>, NoStats)
  /\ session_data' = session_data @@
       (FreshSessionId :> SessionEntry(NoFrame, file.filename, {}))
  /\ UNCHANGED graduation_years

\* load_excel_data fails: pd.read_excel raises, or a required column is missing
UploadFailed(file) ==
  /\ EndsWith(file.filename, ".xls") \/ EndsWith(file.filename, ".xlsx")
  /\ LET raw == StripColumns(DataFrame(file.columns, file.rows))
         missing_columns == Missing(required_columns(raw), raw)
     IN /\ ~file.readable \/ missing_columns # << >>
        /\ result' = Response("upload", 0, NoRequest, "error",
                        IF ~file.readable THEN "Error loading data: " \o file.failure
                        ELSE "Missing required columns: " \o Join(missing_columns, ", "),
                        NoFrame, "", << >>, << >>, NoStats)
  /\ UNCHANGED << session_data, graduation_years >>

\* load_excel_data succeeds: the frame is cached under a fresh session id
UploadLoaded(file) ==
  /\ EndsWith(file.filename, ".xls") \/ EndsWith(file.filename, ".xlsx")
  /\ SessionIds \ DOMAIN session_data # {}
  /\ file.readable
  /\ LET raw == StripColumns(DataFrame(file.columns, file.rows))
         df == LoadedFrame(raw)
         extracted == extract_graduation_years(raw)
         session_id == FreshSessionId
     IN /\ Missing(required_columns(raw), raw) = << >>
        /\ session_data' = session_data @@
             (session_id :> SessionEntry(df, file.filename, extracted.years))
        /\ graduation_years' = GlobalYearsAfter(df, extracted.years)
        /\ result' = Response("upload", session_id, NoRequest, "success", "",
                        NoFrame, "",
                        LoadWarnings(raw, df, extracted.years, extracted.warnings),
                        << >>,
                        [kind |-> "upload", record_count |-> Len(df.rows),
                         is_banner |-> is_banner_file(df)])

upload_file(file) ==
  /\ \/ UploadRefused(file)
     \/ UploadFailed(file)
     \/ UploadLoaded(file)
  /\ UNCHANGED now
  /\ UNCHANGED textVars

\* ---------------------------------------------------------------------------
\* The record filters of the reports
\* ---------------------------------------------------------------------------

\* series.str.startswith("G", na=False) on one cell
StartsWithG(cell) == IsStr(cell) /\ StartsWith(cell.v, "G")

\* series.str.strip().str.lower() == gender_option.lower() on one cell
GenderIs(cell, gender_option) == IsStr(cell) /\ Lower(Strip(cell.v)) = Lower(gender_option)

\* series.str.strip() == "Saudi Arabia" on one cell
IsSaudi(cell) == IsStr(cell) /\ Strip(cell.v) = "Saudi Arabia"

\* "nationality_option and nationality_option.lower() == name"
NationalityIs(nationality_option, name) ==
  /\ IsStr(nationality_option)
  /\ nationality_option.v # ""
  /\ Lower(nationality_option.v) = name

\* df["Current Status"] = df["Current Status"].apply(clean_status)
CleanStatusColumn(df) ==
  SetColumn(df, "Current Status",
        [i \in DOMAIN df.rows |->
           PyStr(clean_status(RowCell(df, df.rows[i], "Current Status")))])

\* As DegreeFilter, but master keeps every record
DegreeFilter_MasterKeepsAll(df, degree_option) ==
  IF degree_option = "bachelor"
    THEN [df EXCEPT !.rows = SelectSeq(df.rows, LAMBDA row :
                               ~StartsWith(RowCell(df, row, "Student ID").v, "G"))]
  ELSE df

\* The degree filter, the same three lines in every report
DegreeFilter(df, degree_option) ==
  IF degree_option = "bachelor"
    THEN FilterRows(df, {row \in Range(df.rows) :
            ~StartsWithG(RowCell(df, row, "Student ID"))})
  ELSE IF degree_option = "master"
    THEN FilterRows(df, {row \in Range(df.rows) :
            StartsWithG(RowCell(df, row, "Student ID"))})
  ELSE df

\* The gender filter, the same two lines in every report
GenderFilter(df, gender_option) ==
  IF Lower(gender_option) # "all"
    THEN FilterRows(df, {row \in Range(df.rows) :
            GenderIs(RowCell(df, row, "Gender"), gender_option)})
  ELSE df

\* The nationality filter of the QAA report and of the alumni list; the
\* caller has looked the column up
SaudiFilter(df, nationality_option) ==
  IF NationalityIs(nationality_option, "saudi")
    THEN FilterRows(df, {row \in Range(df.rows) : IsSaudi(RowCell(df, row, "Nationality"))})
  ELSE IF NationalityIs(nationality_option, "non-saudi")
    THEN FilterRows(df, {row \in Range(df.rows) :
            ~IsSaudi(RowCell(df, row, "Nationality"))})
  ELSE df

\* The request reads the Nationality column
ReadsNationality(nationality_option) ==
  NationalityIs(nationality_option, "saudi") \/ NationalityIs(nationality_option, "non-saudi")

\* ---------------------------------------------------------------------------
\* process_qaa_report
\* ---------------------------------------------------------------------------

QaaError(text) == "Error generating QAA report: " \o text

\* As QaaFilteredAll, with the degree filter in simple mode too
QaaFilteredAll_DegreeAlways(df, request) ==
  DegreeFilter(
    FilterRows(df, {row \in Range(df.rows) :
      /\ IsInList(RowCell(df, row, "_College"), request.colleges)
      /\ IsInList(RowCell(df, row, "_Year"), request.years)}),
    request.degree_option)

\* filtered_df_all: the college and term filters and, in detailed mode, the
\* degree filter
QaaFilteredAll(df, request) ==
  LET by_college == FilterRows(df, {row \in Range(df.rows) :
          IsInList(RowCell(df, row, "_College"), request.colleges)})
      by_year == FilterRows(by_college, {row \in Range(by_college.rows) :
              IsInList(RowCell(df, row, "_Year"), request.years)})
  IN IF request.mode_option = "simple" THEN by_year
     ELSE DegreeFilter(by_year, request.degree_option)

\* filtered_df: in detailed mode the gender and nationality filters on top
QaaFiltered(df, request) ==
  IF request.mode_option = "simple" THEN QaaFilteredAll(df, request)
  ELSE SaudiFilter(GenderFilter(QaaFilteredAll(df, request), request.gender_option),
                   request.nationality_option)

\* The outcome of the request: the error, or the records the workbook is
\* written from; the sheets of the workbook are not part of the outcome
process_qaa_report(session_id, request) ==
  IF session_id \notin DOMAIN session_data THEN Failure(NoSessionError, << >>)
  ELSE LET cached == session_data[session_id].data
       IN IF ~HasColumn(cached, "Current Status")
            THEN Failure(QaaError(KeyErrorText("Current Status")), << >>)
          ELSE IF /\ request.mode_option # "simple"
                  /\ ReadsNationality(request.nationality_option)
                  /\ ~HasColumn(cached, "Nationality")
            THEN Failure(QaaError(KeyErrorText("Nationality")), << >>)
          ELSE LET filtered_df == QaaFiltered(CleanStatusColumn(cached), request)
               IN IF filtered_df.rows = << >> THEN Failure(NoMatchError, << >>)
                  ELSE Success(filtered_df, "QAA_Report", << >>,
                               [kind |-> "qaa", mode |-> request.mode_option])

generate_qaa_report(session_id, request) ==
  /\ result' = Answer("qaa", session_id, request, process_qaa_report(session_id, request))
  /\ UNCHANGED << session_data, graduation_years, now >>
  /\ UNCHANGED textVars

\* ---------------------------------------------------------------------------
\* process_alumni_list
\* ---------------------------------------------------------------------------

AlumniError(text) == "Error generating alumni list: " \o text

\* The alumni list works on the cached frame itself, not on a copy: cleaning
\* the status column rewrites the cache
AlumniCached(session_id) ==
  IF session_id \in DOMAIN session_data
       /\ HasColumn(session_data[session_id].data, "Current Status")
    THEN [session_data EXCEPT ![session_id].data = CleanStatusColumn(@)]
  ELSE session_data

\* The filters of the list, up to the status filter; the caller has looked
\* the columns up
AlumniFiltered(df, request) ==
  LET allowed_statuses == [i \in 1..Len(request.status_options) |->
                             clean_status(PyStr(request.status_options[i]))]
      by_college == FilterRows(df, {row \in Range(df.rows) :
              IsInList(StrStrip(RowCell(df, row, "College")), request.colleges)})
      by_year == FilterRows(by_college, {row \in Range(by_college.rows) :
              IsInList(StrStrip(RowCell(df, row, "Year/Semester of Graduation")),
                       request.years)})
      by_nationality ==
        SaudiFilter(GenderFilter(DegreeFilter(by_year, request.degree_option),
                                 request.gender_option),
                    request.nationality_option)
  IN FilterRows(by_nationality, {row \in Range(by_nationality.rows) :
          IsInList(RowCell(df, row, "Current Status"), allowed_statuses)})

process_alumni_list(session_id, request) ==
  IF session_id \notin DOMAIN session_data THEN Failure(NoSessionError, << >>)
  ELSE LET cached == session_data[session_id].data
       IN IF ~HasColumn(cached, "Current Status")
            THEN Failure(AlumniError(KeyErrorText("Current Status")), << >>)
          ELSE IF ~HasColumn(cached, "Year/Semester of Graduation")
            THEN Failure(AlumniError(KeyErrorText("Year/Semester of Graduation")), << >>)
          ELSE IF /\ ReadsNationality(request.nationality_option)
                  /\ ~HasColumn(cached, "Nationality")
            THEN Failure(AlumniError(KeyErrorText("Nationality")), << >>)
          ELSE LET filtered_df == AlumniFiltered(CleanStatusColumn(cached), request)
               IN IF filtered_df.rows = << >> THEN Failure(NoMatchError, << >>)
                  ELSE Success(filtered_df, "Alumni_List", << >>, [kind |-> "alumni"])

generate_alumni_list(session_id, request) ==
  /\ result' = Answer("alumni", session_id, request,
                      process_alumni_list(session_id, request))
  /\ session_data' = AlumniCached(session_id)
  /\ UNCHANGED << graduation_years, now >>
  /\ UNCHANGED textVars

\* ---------------------------------------------------------------------------
\* get_workplace_statistics and process_workplace_report
\* ---------------------------------------------------------------------------

WorkplaceError(text) == "Error generating workplace report: " \o text

NationalityIgnoredWarning == "Warning: Nationality column not found, nationality filter ignored"

\* df[mask]: the records the statistics are computed from
WorkplaceFiltered(df, request) ==
  LET by_term == FilterRows(df, {row \in Range(df.rows) :
                   /\ IsInList(RowCell(df, row, "_College"), request.colleges)
                   /\ IsInList(RowCell(df, row, "_Year"), request.years)})
      by_gender == GenderFilter(DegreeFilter(by_term, request.degree_option),
                                request.gender_option)
  IN IF NationalityIs(request.nationality_option, "saudi") /\ HasColumn(df, "Nationality")
       THEN FilterRows(by_gender, {row \in Range(by_gender.rows) :
               IsSaudi(RowCell(df, row, "Nationality"))})
     ELSE by_gender

\* What get_workplace_statistics prints
WorkplacePrinted(df, request) ==
  IF NationalityIs(request.nationality_option, "saudi") /\ ~HasColumn(df, "Nationality")
    THEN << NationalityIgnoredWarning >>
  ELSE << >>

\* The counts of the statistics, with the normalised workplace and the high
\* position of each record
get_workplace_statistics(df, request) ==
  LET filtered_df == WorkplaceFiltered(df, request)
      Normalized_Workplace ==
        [i \in 1..Len(filtered_df.rows) |->
           normalize_company_name(RowCell(df, filtered_df.rows[i], "Current Workplace"))]
      High_Position ==
        [i \in 1..Len(filtered_df.rows) |->
           is_high_position(RowCell(df, filtered_df.rows[i], "Current Position"))]
      empty_entries == SelectSeq(Normalized_Workplace, LAMBDA w : StartsWith(w, "EMPTY"))
      high_positions == SelectSeq(High_Position, LAMBDA p : p # PyNone)
  IN [kind |-> "workplace",
      Normalized_Workplace |-> Normalized_Workplace,
      High_Position |-> High_Position,
      total_alumni |-> Len(filtered_df.rows),
      valid_entries |-> Len(filtered_df.rows) - Len(empty_entries),
      empty_entries |-> Len(empty_entries),
      high_positions_count |-> Len(high_positions)]

process_workplace_report(session_id, request) ==
  IF session_id \notin DOMAIN session_data THEN Failure(NoSessionError, << >>)
  ELSE LET df == session_data[session_id].data
       IN IF ~HasColumn(df, "Current Workplace")
            THEN Failure(WorkplaceError(KeyErrorText("Current Workplace")),
                         WorkplacePrinted(df, request))
          ELSE Success(WorkplaceFiltered(df, request), "Workplace_Report",
                       WorkplacePrinted(df, request),
                       get_workplace_statistics(df, request))

generate_workplace_report(session_id, request) ==
  /\ result' = Answer("workplace", session_id, request,
                      process_workplace_report(session_id, request))
  /\ UNCHANGED << session_data, graduation_years, now >>
  /\ UNCHANGED textVars

\* ---------------------------------------------------------------------------
\* The workbooks uploaded and the requests made
\* ---------------------------------------------------------------------------

S(text) == PyStr(text)

\* df.drop(columns=[col]): the sheet without one column
WithoutColumn(df, col) ==
  LET keep == SelectSeq([i \in 1..Len(df.columns) |-> i], LAMBDA i : df.columns[i] # col)
  IN [columns |-> [k \in 1..Len(keep) |-> df.columns[keep[k]]],
      rows |-> [r \in 1..Len(df.rows) |-> [k \in 1..Len(keep) |-> df.rows[r][keep[k]]]]]

Workbook(filename, df) ==
  [filename |-> filename, readable |-> TRUE, failure |-> "",
   columns |-> df.columns, rows |-> df.rows]

\* An Alumni roster: padded and empty cells, both degree levels, Saudi and
\* other nationalities, a status and a college outside the known lists
AlumniSheet ==
  DataFrame(
    << "Student ID", "Student Name", "College", "Major", "Gender ", "Nationality",
       "Year/Semester of Graduation", "Current Status", "Current Workplace",
       "Current Position" >>,
    << << S("201"), S("Ali"), S("College of Business"), S("Finance"), S("Male"),
          S("Saudi Arabia"), S("2013-2014 FALL"), S("Employed"), S("SNB"),
          S("IT Director") >>,
       << S("G202"), S("Sara"), S(" College of Business"), S("Finance"), S("Female"),
          S(" Saudi Arabia "), S("2013-2014 FALL "), S("unemployed "), PyNaN, PyNaN >>,
       << S("203"), S("Mona"), S("College of Medicine"), S("Medicine"), S(" female"),
          S("Egypt"), S("2014-2015 Spring"), S("STUDYING"), S("N/A"),
          S("Head Chef") >>,
       << S("G204"), PyNaN, S("College of Medicine"), S("Medicine"), S("Male"),
          PyNaN, S("2013-2014 FALL"), S("Retired"), S("Aramco Ltd"),
          S("Chief Engineer") >>,
       << S("20-5"), S("Lina"), S("College of Arts"), S("Design"), S("Female"),
          S("saudi arabia"), PyNaN, S("Employed"), S("Aramco"), S("Manager") >> >>)

\* A Banner extract: one graduate the roster has, one it has not
BannerSheet ==
  DataFrame(
    << "Student ID", "Student Name", "College", "Graduation Term", "Major", "Gender",
       "Nationality", "CGPA" >>,
    << << S("201"), S("Ali"), S("College of Business"), S("2013-2014 FALL"),
          S("Finance"), S("Male"), S("Saudi Arabia"), S("3.5") >>,
       << S("G301"), S("Huda"), S("College of Pharmacy"), S("2024-2025 FALL"),
          S("Pharmacy"), S("Female"), PyNaN, PyNaN >> >>)

Files ==
  { Workbook("alumni.xlsx", AlumniSheet),
    Workbook("alumni_no_nationality.xlsx", WithoutColumn(AlumniSheet, "Nationality")),
    Workbook("alumni_empty.xls", [AlumniSheet EXCEPT !.rows = << >>]),
    Workbook("banner.xlsx", BannerSheet),
    Workbook("alumni_no_major.xlsx",
             WithoutColumn(WithoutColumn(AlumniSheet, "Major"), "Current Position")),
    Workbook("alumni.csv", AlumniSheet),
    [Workbook("broken.xlsx", NoFrame) EXCEPT
       !.readable = FALSE, !.failure = "File is not a zip file"] }

CollegeChoices == { << >>, << "College of Business", "College of Medicine" >> }

YearChoices == { << >>, << "2013-2014 FALL", "2014-2015 Spring" >> }

DegreeChoices == { "all", "bachelor", "master" }

GenderChoices == { "all", "Female" }

NationalityChoices == { PyNone, S("all"), S("saudi"), S("Non-Saudi") }

StatusChoices == { << "Employed", " unemployed" >>, << "Studying", "Retired" >>, << >> }

CombineChoices == { << FALSE, TRUE >>, << TRUE, TRUE >>, << FALSE, FALSE >> }

\* combine_all and combine_years are read in detailed mode only
QaaRequests ==
  [colleges : CollegeChoices, years : YearChoices, degree_option : DegreeChoices,
   gender_option : GenderChoices, nationality_option : NationalityChoices,
   mode_option : {"detailed"}, combine : CombineChoices]
  \cup
  [colleges : CollegeChoices, years : YearChoices, degree_option : DegreeChoices,
   gender_option : GenderChoices, nationality_option : NationalityChoices,
   mode_option : {"simple"}, combine : {<< FALSE, TRUE >>}]

AlumniRequests ==
  [colleges : CollegeChoices, years : YearChoices, degree_option : DegreeChoices,
   gender_option : GenderChoices, nationality_option : NationalityChoices,
   status_options : StatusChoices]

WorkplaceRequests ==
  [colleges : CollegeChoices, years : YearChoices, degree_option : DegreeChoices,
   gender_option : GenderChoices, nationality_option : NationalityChoices]

\* ---------------------------------------------------------------------------
\* The application: uploads and report requests, answered one at a time
\* ---------------------------------------------------------------------------

Init ==
  /\ arg = Unset
  /\ out = Unset
  /\ out2 = Unset
  /\ pc = "idle"
  /\ AppStart

\* No request is being answered: the server takes the next one
Idle == result = NoResult

Upload == Idle /\ \E file \in Files : upload_file(file)

QaaReport ==
  Idle /\ \E session_id \in SessionIds, request \in QaaRequests :
    generate_qaa_report(session_id, request)

AlumniList ==
  Idle /\ \E session_id \in SessionIds, request \in AlumniRequests :
    generate_alumni_list(session_id, request)

WorkplaceReport ==
  Idle /\ \E session_id \in SessionIds, request \in WorkplaceRequests :
    generate_workplace_report(session_id, request)

\* return jsonify(result): the response leaves, the next request can come
Respond ==
  /\ result # NoResult
  /\ result' = NoResult
  /\ UNCHANGED << session_data, graduation_years, now >>
  /\ UNCHANGED textVars

Next == Upload \/ QaaReport \/ AlumniList \/ WorkplaceReport \/ Respond

Spec == Init /\ [][Next]_vars

\* ---------------------------------------------------------------------------
\* The record filters: what the reports are held to
\* ---------------------------------------------------------------------------

\* The response being sent answers a report request of a session that exists
AnswersReport(ops) ==
  /\ result # NoResult
  /\ result.op \in ops
  /\ result.session_id \in DOMAIN session_data

\* The frame the request being answered was made against
RequestedData == session_data[result.session_id].data

\* The frame is an Alumni roster: it has the columns every report reads
IsRoster(df) == HasColumn(df, "Current Status") /\ HasColumn(df, "Current Workplace")

\* The records the report's own filters keep for a request
Matching(op, df, request) ==
  IF op = "qaa" THEN QaaFiltered(CleanStatusColumn(df), request)
  ELSE IF op = "alumni" THEN AlumniFiltered(CleanStatusColumn(df), request)
  ELSE WorkplaceFiltered(df, request)

\* The same request without a nationality option
WithoutNationality(request) == [request EXCEPT !.nationality_option = PyStr("all")]

\* What the nationality option is to keep of the records the other filters keep
KeptByNationality(df, others, nationality_option) ==
  IF NationalityIs(nationality_option, "saudi")
    THEN FilterRows(others, {row \in Range(others.rows) :
            Strip(RowCell(df, row, "Nationality").v) = "Saudi Arabia"})
  ELSE IF NationalityIs(nationality_option, "non-saudi")
    THEN FilterRows(others, {row \in Range(others.rows) :
            Strip(RowCell(df, row, "Nationality").v) # "Saudi Arabia"})
  ELSE others

\* The request takes the nationality option into account: every report but
\* the QAA report in simple mode
TakesNationality ==
  result.op \in {"alumni", "workplace"}
    \/ (result.op = "qaa" /\ result.request.mode_option = "detailed")

\* C7: in the QAA detailed report, the alumni list and the workplace report,
\* made on a roster that has the Nationality column, the records of a
\* successful report are: with option saudi exactly the records the other
\* filters keep whose trimmed nationality is "Saudi Arabia", with option
\* non-saudi exactly the others, and with no option or all every record the
\* other filters keep.
C7_NationalityFilter ==
  ( /\ AnswersReport({"qaa", "alumni", "workplace"})
    /\ TakesNationality
    /\ IsRoster(RequestedData)
    /\ HasColumn(RequestedData, "Nationality")
    /\ result.status = "success" )
  => result.selected =
       KeptByNationality(RequestedData,
         Matching(result.op, RequestedData, WithoutNationality(result.request)),
         result.request.nationality_option)

\* The outcome of the request being answered, had it carried no nationality
\* option
OutcomeWithoutNationality ==
  IF result.op = "qaa"
    THEN process_qaa_report(result.session_id, WithoutNationality(result.request))
  ELSE IF result.op = "alumni"
    THEN process_alumni_list(result.session_id, WithoutNationality(result.request))
  ELSE process_workplace_report(result.session_id, WithoutNationality(result.request))

\* C8: when the roster has no Nationality column and the request asks for
\* saudi or non-saudi, the QAA report, the alumni list and the workplace
\* report answer as they would without the option: the same records, the
\* same success, no error of their own.
C8_MissingNationalityNoOp ==
  ( /\ AnswersReport({"qaa", "alumni", "workplace"})
    /\ IsRoster(RequestedData)
    /\ ~HasColumn(RequestedData, "Nationality")
    /\ ReadsNationality(result.request.nationality_option) )
  => /\ result.status = OutcomeWithoutNationality.status
     /\ result.error = OutcomeWithoutNationality.error
     /\ result.selected = OutcomeWithoutNationality.selected

\* C9: a request of the QAA report (either mode), the alumni list or the
\* workplace report, made on a roster that has the Nationality column, whose
\* filters keep no record is answered with the error "No matching data found
\* for the given filters." and with no report file.
C9_NoMatchIsError ==
  ( /\ AnswersReport({"qaa", "alumni", "workplace"})
    /\ IsRoster(RequestedData)
    /\ HasColumn(RequestedData, "Nationality")
    /\ Matching(result.op, RequestedData, result.request).rows = << >> )
  => /\ result.status = "error"
     /\ result.error = NoMatchError
     /\ result.file = ""

\* C10: a QAA or alumni-list request on a roster with no college or no term
\* asked for selects no record and is answered with the error "No matching
\* data found for the given filters."
C10_EmptySetsMatchNothing ==
  ( /\ AnswersReport({"qaa", "alumni"})
    /\ IsRoster(RequestedData)
    /\ (result.request.colleges = << >> \/ result.request.years = << >>) )
  => /\ result.selected.rows = << >>
     /\ result.status = "error"
     /\ result.error = NoMatchError

\* The same request with another degree option
WithDegree(request, degree_option) == [request EXCEPT !.degree_option = degree_option]

\* The records of a frame whose student identifier starts, or does not
\* start, with the graduate marker
GraduateRecords(df, others) ==
  SelectSeq(others.rows, LAMBDA row : SubSeq(RowCell(df, row, "Student ID").v, 1, 1) = "G")

UndergraduateRecords(df, others) ==
  SelectSeq(others.rows, LAMBDA row : SubSeq(RowCell(df, row, "Student ID").v, 1, 1) # "G")

\* C11: in the QAA detailed report, the alumni list and the workplace report,
\* a successful report made with degree option bachelor holds exactly the
\* records the other filters keep whose student identifier does not start
\* with "G", with master exactly those whose identifier starts with "G", and
\* with all every record the other filters keep; the bachelor and master
\* selections of the request share no record and together are the all
\* selection.
C11_DegreePartition ==
  ( /\ AnswersReport({"qaa", "alumni", "workplace"})
    /\ TakesNationality
    /\ IsRoster(RequestedData)
    /\ result.status = "success" )
  => LET every == Matching(result.op, RequestedData, WithDegree(result.request, "all"))
         bachelor == Matching(result.op, RequestedData,
                              WithDegree(result.request, "bachelor"))
         master == Matching(result.op, RequestedData, WithDegree(result.request, "master"))
     IN /\ bachelor.rows = UndergraduateRecords(RequestedData, every)
        /\ master.rows = GraduateRecords(RequestedData, every)
        /\ Range(bachelor.rows) \cap Range(master.rows) = {}
        /\ Len(bachelor.rows) + Len(master.rows) = Len(every.rows)
        /\ result.selected.rows =
             IF result.request.degree_option = "bachelor" THEN bachelor.rows
             ELSE IF result.request.degree_option = "master" THEN master.rows
             ELSE every.rows

\* A master report that holds a graduate record and leaves an undergraduate
\* one out
C11_Witness ==
  /\ AnswersReport({"qaa", "alumni", "workplace"})
  /\ TakesNationality
  /\ IsRoster(RequestedData)
  /\ result.status = "success"
  /\ result.request.degree_option = "master"
  /\ result.selected.rows # << >>
  /\ Len(result.selected.rows) <
       Len(Matching(result.op, RequestedData, WithDegree(result.request, "all")).rows)

\* ---------------------------------------------------------------------------
\* extract_academic_year: the academic year of a graduation term
\* ---------------------------------------------------------------------------

\* int(text) of a run of digits
RECURSIVE ParseInt(_)
ParseInt(digits) ==
  IF digits = "" THEN 0
  ELSE 10 * ParseInt(SubSeq(digits, 1, Len(digits) - 1))
         + (IndexIn(CharAt(digits, Len(digits)), Digits) - 1)

\* str(n) of an integer
RECURSIVE FormatInt(_)
FormatInt(n) ==
  IF n < 0 THEN "-" \o FormatInt(0 - n)
  ELSE IF n < 10 THEN CharAt(Digits, n + 1)
  ELSE FormatInt(n \div 10) \o CharAt(Digits, (n % 10) + 1)

\* The pattern matches at position i of s; the patterns are
\* (\d{4})-(\d{4}), (\d{4})-(\d{2}) and (\d{4})
YearPatternAt(pattern, s, i) ==
  /\ i + 3 <= Len(s)
  /\ AllDigits(SubSeq(s, i, i + 3))
  /\ pattern = "full" =>
       /\ i + 8 <= Len(s)
       /\ CharAt(s, i + 4) = "-"
       /\ AllDigits(SubSeq(s, i + 5, i + 8))
  /\ pattern = "short" =>
       /\ i + 6 <= Len(s)
       /\ CharAt(s, i + 4) = "-"
       /\ AllDigits(SubSeq(s, i + 5, i + 6))

\* re.search(pattern, s): where the leftmost match starts, 0 when none
RECURSIVE YearSearchFrom(_, _, _)
YearSearchFrom(pattern, s, i) ==
  IF i > Len(s) THEN 0
  ELSE IF YearPatternAt(pattern, s, i) THEN i
  ELSE YearSearchFrom(pattern, s, i + 1)

\* As extract_academic_year, but trying the single year first
extract_academic_year_SingleFirst(graduation_term) ==
  IF pd_isna(graduation_term) \/ ~IsStr(graduation_term) THEN "Unknown"
  ELSE LET s == graduation_term.v
           single == YearSearchFrom("single", s, 1)
       IN IF single # 0
            THEN FormatInt(ParseInt(SubSeq(s, single, single + 3)) - 1)
                   \o "-" \o FormatInt(ParseInt(SubSeq(s, single, single + 3)))
          ELSE "Unknown"

extract_academic_year(graduation_term) ==
  IF pd_isna(graduation_term) \/ ~IsStr(graduation_term) THEN "Unknown"
  ELSE LET s == graduation_term.v
           full == YearSearchFrom("full", s, 1)
           short == YearSearchFrom("short", s, 1)
           single == YearSearchFrom("single", s, 1)
       IN IF full # 0
            THEN SubSeq(s, full, full + 3) \o "-" \o SubSeq(s, full + 5, full + 8)
          ELSE IF short # 0
            THEN SubSeq(s, short, short + 3) \o "-20" \o SubSeq(s, short + 5, short + 6)
          ELSE IF single # 0
            THEN FormatInt(ParseInt(SubSeq(s, single, single + 3)) - 1)
                   \o "-" \o FormatInt(ParseInt(SubSeq(s, single, single + 3)))
          ELSE "Unknown"

\* The graduation terms the extraction is run on: each form of year with text
\* before and after it, terms holding two forms, and values that are no text
YearCores ==
  { "2013-2014", "2013-14", "2014", "garbage", "", "13-14", "20134", "2013-",
    "2013-1", "2013-145", "12345-6789", "0000", "0999", "2013 - 2014", "2013/14",
    "2010 2013-14", "1999-00 2013-2014", "2014 2013-2014", "201-2014", "999" }

YearAffixes == { << "", "" >>, << "", " FALL" >>, << "Spring ", "" >>, << "x", "5" >> }

YearInputs ==
  { PyStr(affix[1] \o core \o affix[2]) : core \in YearCores, affix \in YearAffixes }
    \cup { PyNone, PyNaN, PyInt("2014"), PyFloat("2013.5") }

InitYear ==
  /\ arg \in YearInputs
  /\ out = Unset
  /\ out2 = Unset
  /\ pc = "input"
  /\ AppStart

ExtractYear ==
  /\ pc = "input"
  /\ out' = PyStr(extract_academic_year(arg))
  /\ pc' = "once"
  /\ UNCHANGED << arg, out2 >>
  /\ UNCHANGED appVars

NextYear == ExtractYear

SpecYear == InitYear /\ [][NextYear]_vars

\* Four digits stand at position i of s
FourDigitsAt(s, i) ==
  /\ i + 3 <= Len(s)
  /\ \A k \in i..(i + 3) :
       SubSeq(s, k, k) \in {"0", "1", "2", "3", "4", "5", "6", "7", "8", "9"}

\* Where in s a YYYY-YYYY, a YYYY-YY and a YYYY stand
FullYearsIn(s) ==
  {i \in 1..Len(s) : /\ FourDigitsAt(s, i)
                     /\ i + 8 <= Len(s)
                     /\ SubSeq(s, i + 4, i + 4) = "-"
                     /\ FourDigitsAt(s, i + 5)}

ShortYearsIn(s) ==
  {i \in 1..Len(s) : /\ FourDigitsAt(s, i)
                     /\ i + 6 <= Len(s)
                     /\ SubSeq(s, i + 4, i + 4) = "-"
                     /\ \E y \in 0..99 : SubSeq(s, i + 5, i + 6) =
                                           FormatInt(y \div 10) \o FormatInt(y % 10)}

SingleYearsIn(s) == {i \in 1..Len(s) : FourDigitsAt(s, i)}

First(positions) == CHOOSE i \in positions : \A j \in positions : i <= j

\* The year a four-digit text stands for
YearNumber(text) == CHOOSE y \in 0..9999 :
  \E pad \in {"", "0", "00", "000"} : pad \o FormatInt(y) = text

\* What the three patterns, tried in order, are to give for a term
ExpectedAcademicYear(term) ==
  IF term.t # "str" THEN "Unknown"
  ELSE IF FullYearsIn(term.v) # {}
    THEN SubSeq(term.v, First(FullYearsIn(term.v)), First(FullYearsIn(term.v)) + 8)
  ELSE IF ShortYearsIn(term.v) # {}
    THEN SubSeq(term.v, First(ShortYearsIn(term.v)), First(ShortYearsIn(term.v)) + 4)
           \o "20"
           \o SubSeq(term.v, First(ShortYearsIn(term.v)) + 5, First(ShortYearsIn(term.v)) + 6)
  ELSE IF SingleYearsIn(term.v) # {}
    THEN LET year == YearNumber(SubSeq(term.v, First(SingleYearsIn(term.v)),
                                       First(SingleYearsIn(term.v)) + 3))
         IN FormatInt(year - 1) \o "-" \o FormatInt(year)
  ELSE "Unknown"

\* C18: the academic year of a term is the first YYYY-YYYY in it as it stands,
\* failing that the first YYYY-YY with 20 put before its last two digits,
\* failing that the first YYYY taken as the ending year, and "Unknown" for
\* every other term and for every value that is not text; "2013-2014 FALL",
\* "2013-14" and "2014" give "2013-2014" and "garbage" gives "Unknown".
C18_AcademicYear ==
  pc = "once" =>
    /\ out = PyStr(ExpectedAcademicYear(arg))
    /\ arg \in {PyStr("2013-2014 FALL"), PyStr("2013-14"), PyStr("2014")}
         => out = PyStr("2013-2014")
    /\ arg = PyStr("garbage") => out = PyStr("Unknown")

\* A term holding a single year before a short year: the short year wins
C18_Witness ==
  /\ pc = "once"
  /\ arg = PyStr("2010 2013-14 FALL")
  /\ out = PyStr("2013-2014")

\* ---------------------------------------------------------------------------
\* The cross-tab sheets of the QAA detailed report
\* ---------------------------------------------------------------------------

\* The statuses counted as employed
\* The list without the statuses that stand for employment
employed_statuses_OnlyEmployed == << "Employed" >>

employed_statuses ==
  << "Employed", "Employed - add to list", "Business owner", "Training",
     "Do not contact", "Others", "Left the country", "Passed away", "New graduate" >>

college_abbreviations ==
  "College of Engineering & Advan" :> "CoE" @@ "College of Business" :> "CoB"
    @@ "College of Medicine" :> "CoM" @@ "College of Pharmacy" :> "CoP"
    @@ "College of Science & General S" :> "CoS"

\* series.sum() of a column given as a function over the row labels
RECURSIVE SumOver(_, _)
SumOver(column, labels) ==
  IF labels = {} THEN 0
  ELSE LET label == CHOOSE l \in labels : TRUE
       IN column[label] + SumOver(column, labels \ {label})

\* (count / overall_total * 100).fillna(0).round(2), in hundredths of a
\* percent.  No quotient of fewer than 32 records lies half-way between two
\* hundredths, so the rounding rule for ties does not show.
RoundedPercentage(count, overall_total) ==
  IF overall_total = 0 THEN 0
  ELSE (20000 * count + overall_total) \div (2 * overall_total)

\* As RoundedPercentage, but of the row's own total
RoundedPercentage_OfRow(count, row_total, overall_total) ==
  IF row_total = 0 THEN 0 ELSE (20000 * count + row_total) \div (2 * row_total)

\* The percentage of a row's derived count
RowPercentage(count, row_total, overall_total) == RoundedPercentage(count, overall_total)

\* "Masters" if the identifier starts with G, "Bachelors" otherwise
DegreeType(sid) ==
  IF IsStr(sid) /\ StartsWith(Strip(sid.v), "G") THEN "Masters" ELSE "Bachelors"

\* The value of group_col in a record
GroupKey(df, row, use_formatted_majors) ==
  IF use_formatted_majors
    THEN Strip(RowCell(df, row, "Major").v) \o " - "
           \o DegreeType(RowCell(df, row, "Student ID")) \o " - "
           \o Strip(RowCell(df, row, "College").v)
  ELSE RowCell(df, row, "Major").v

\* One cross-tab sheet of the records: groupby([group_col, "Current Status"])
\* .size().unstack(fill_value=0), the Total column, the employment columns,
\* their percentages, and the "Overall Total" row.  The order of the rows and
\* of the status columns is not kept.
CrossTab(df, records, use_formatted_majors) ==
  LET index == {GroupKey(df, row, use_formatted_majors) : row \in Range(records)}
      status_columns == {RowCell(df, row, "Current Status").v : row \in Range(records)}
      grouped == [key \in index |-> [status \in status_columns |->
        Cardinality({i \in DOMAIN records :
          /\ GroupKey(df, records[i], use_formatted_majors) = key
          /\ RowCell(df, records[i], "Current Status").v = status})]]
      Total == [key \in index |-> SumOver(grouped[key], status_columns)]
      overall_total == SumOver(Total, index)
      Get(key, status) == IF status \in status_columns THEN grouped[key][status] ELSE 0
      Employed == [key \in index |->
        SumOver([i \in DOMAIN employed_statuses |-> Get(key, employed_statuses[i])],
                DOMAIN employed_statuses)]
      Unemployed == [key \in index |-> Get(key, "Unemployed")]
      Studying == [key \in index |-> Get(key, "Studying")]
      final_report == [key \in index |->
        [counts |-> grouped[key],
         Total |-> Total[key],
         Employed |-> Employed[key],
         Unemployed |-> Unemployed[key],
         Studying |-> Studying[key],
         EmployedPercentage |-> RowPercentage(Employed[key], Total[key], overall_total),
         UnemployedPercentage |-> RowPercentage(Unemployed[key], Total[key], overall_total),
         StudyingPercentage |-> RowPercentage(Studying[key], Total[key], overall_total)]]
      summary_row ==
        [counts |-> [status \in status_columns |->
                       SumOver([key \in index |-> grouped[key][status]], index)],
         Total |-> SumOver([key \in index |-> final_report[key].Total], index),
         Employed |-> SumOver([key \in index |-> final_report[key].Employed], index),
         Unemployed |-> SumOver([key \in index |-> final_report[key].Unemployed], index),
         Studying |-> SumOver([key \in index |-> final_report[key].Studying], index),
         EmployedPercentage |->
           SumOver([key \in index |-> final_report[key].EmployedPercentage], index),
         UnemployedPercentage |->
           SumOver([key \in index |-> final_report[key].UnemployedPercentage], index),
         StudyingPercentage |->
           SumOver([key \in index |-> final_report[key].StudyingPercentage], index)]
  IN [index |-> index, status_columns |-> status_columns,
      rows |-> final_report, overall |-> summary_row]

\* s[:n]
Prefix(s, n) == IF Len(s) <= n THEN s ELSE SubSeq(s, 1, n)

\* college_abbreviations.get(college.strip(), college[:n])
CollegeSheetName(college, n) ==
  IF Strip(college) \in DOMAIN college_abbreviations
    THEN college_abbreviations[Strip(college)]
  ELSE Prefix(college, n)

\* ''.join(re.findall(r'\w', uuid.uuid4().hex))[:3]: three hexadecimal digits
\* drawn afresh for every sheet; one draw stands for them here
random_suffix == "a3f"

\* The records of one college, and of one term of it
\* Every record, whatever its college
CollegeRecords_Every(df, college) == df.rows

CollegeRecords(df, college) ==
  SelectSeq(df.rows, LAMBDA row : Strip(RowCell(df, row, "College").v) = college)

YearRecords(df, college, year) ==
  SelectSeq(CollegeRecords(df, college), LAMBDA row :
    Strip(RowCell(df, row, "Year/Semester of Graduation").v) = year)

\* sorted(set(records["Year/Semester of Graduation"].dropna().str.strip())),
\* the order not kept
UniqueYears(df, records) ==
  {Strip(RowCell(df, row, "Year/Semester of Graduation").v) : row \in Range(records)}

\* A sheet of the workbook: its name, the college and term it is about (""
\* when it is about all of them), its table and the terms written under it
Sheet(name, college, year, table, academic_years) ==
  [name |-> name, college |-> college, year |-> year, table |-> table,
   academic_years |-> academic_years]

\* The sheets of the detailed report in the order they are written: the
\* combined sheet, or one per college with records, or one per college and
\* term with records
QaaSheets(df, request) ==
  LET combine_all == request.combine[1]
      combine_years == request.combine[2]
      use_formatted_majors == combine_all \/ request.degree_option = "all"
      colleges == request.colleges
      years == request.years
      CollegeOf(k) == colleges[((k - 1) \div Len(years)) + 1]
      YearOf(k) == years[((k - 1) % Len(years)) + 1]
  IN IF combine_all
       THEN << Sheet("Combined_Report", "", "",
                     CrossTab(df, df.rows, use_formatted_majors),
                     UniqueYears(df, df.rows)) >>
     ELSE IF combine_years
       THEN LET with_records == SelectSeq(colleges, LAMBDA college :
                                  CollegeRecords(df, college) # << >>)
            IN [i \in DOMAIN with_records |->
                  Sheet(CollegeSheetName(with_records[i], 25), with_records[i], "",
                        CrossTab(df, CollegeRecords(df, with_records[i]),
                                 use_formatted_majors),
                        UniqueYears(df, CollegeRecords(df, with_records[i])))]
     ELSE LET with_records ==
                SelectSeq([k \in 1..(Len(colleges) * Len(years)) |-> k], LAMBDA k :
                  YearRecords(df, CollegeOf(k), YearOf(k)) # << >>)
          IN [i \in DOMAIN with_records |->
                Sheet(Prefix(CollegeSheetName(CollegeOf(with_records[i]), 15) \o " - "
                               \o YearOf(with_records[i]) \o " - " \o random_suffix, 31),
                      CollegeOf(with_records[i]), YearOf(with_records[i]),
                      CrossTab(df, YearRecords(df, CollegeOf(with_records[i]),
                                               YearOf(with_records[i])),
                               use_formatted_majors),
                      {YearOf(with_records[i])})]

\* ---------------------------------------------------------------------------
\* The sheets of the QAA report in simple mode
\* ---------------------------------------------------------------------------

\* The characters in the order Python compares them (the grave accent, which
\* a string here cannot hold, left out)
CodePoints ==
  "\t\n\f\r !\"#$%&'()*+,-./0123456789:;<=>?@ABCDEFGHIJKLMNOPQRSTUVWXYZ[\\]^_abcdefghijklmnopqrstuvwxyz{|}~"

\* a < b for two texts
RECURSIVE StrLess(_, _)
StrLess(a, b) ==
  IF b = "" THEN FALSE
  ELSE IF a = "" THEN TRUE
  ELSE IF CharAt(a, 1) = CharAt(b, 1) THEN StrLess(Tail(a), Tail(b))
  ELSE IndexIn(CharAt(a, 1), CodePoints) < IndexIn(CharAt(b, 1), CodePoints)

\* sorted(values) of distinct texts
RECURSIVE Sorted(_)
Sorted(values) ==
  IF values = {} THEN << >>
  ELSE LET least == CHOOSE v \in values : \A w \in values \ {v} : StrLess(v, w)
       IN << least >> \o Sorted(values \ {least})

\* The academic year of a record
AcademicYear(df, row) == extract_academic_year(RowCell(df, row, "_Year"))

\* One line of a summary with the genders compared as they are written
CollegeSummary_ExactGender(df, college, records) ==
  LET college_df == SelectSeq(records, LAMBDA row :
                      Strip(RowCell(df, row, "_College").v) = college)
  IN [College |-> college,
      TotalGraduates |-> Len(college_df),
      Gentlemen |-> Len(SelectSeq(college_df, LAMBDA row :
                      RowCell(df, row, "Gender").v = "MALE")),
      Ladies |-> Len(SelectSeq(college_df, LAMBDA row :
                   RowCell(df, row, "Gender").v = "FEMALE"))]

\* One line of a summary: a college with its graduates, men and women
CollegeSummary(df, college, records) ==
  LET college_df == SelectSeq(records, LAMBDA row :
                      Strip(RowCell(df, row, "_College").v) = college)
      Gender_Normalized(row) == Upper(Strip(RowCell(df, row, "Gender").v))
  IN [College |-> college,
      TotalGraduates |-> Len(college_df),
      Gentlemen |-> Len(SelectSeq(college_df, LAMBDA row : Gender_Normalized(row) = "MALE")),
      Ladies |-> Len(SelectSeq(college_df, LAMBDA row : Gender_Normalized(row) = "FEMALE"))]

\* The lines of a summary, one per college in order of first appearance, and
\* the TOTAL line under them
SummaryTable(df, records) ==
  LET colleges_with_data ==
        Unique([i \in DOMAIN records |-> Strip(RowCell(df, records[i], "_College").v)])
      summary_df == [i \in DOMAIN colleges_with_data |->
                       CollegeSummary(df, colleges_with_data[i], records)]
  IN [rows |-> summary_df,
      total |-> [TotalGraduates |->
                   SumOver([i \in DOMAIN summary_df |-> summary_df[i].TotalGraduates],
                           DOMAIN summary_df),
                 Gentlemen |->
                   SumOver([i \in DOMAIN summary_df |-> summary_df[i].Gentlemen],
                           DOMAIN summary_df),
                 Ladies |->
                   SumOver([i \in DOMAIN summary_df |-> summary_df[i].Ladies],
                           DOMAIN summary_df)]]

\* The per-year sheets of the simple report, by academic year; the records
\* whose academic year is "Unknown" get no sheet
SimpleSheets(df) ==
  LET academic_years == Sorted({AcademicYear(df, row) : row \in Range(df.rows)})
      with_sheet == SelectSeq(academic_years, LAMBDA year : year # "Unknown")
  IN [i \in DOMAIN with_sheet |->
        Sheet(Prefix(Replace(with_sheet[i], "-", "_"), 31), "", with_sheet[i],
              SummaryTable(df, SelectSeq(df.rows, LAMBDA row :
                                 AcademicYear(df, row) = with_sheet[i])),
              {})]

\* create_all_years_summary_tab: one line per college over all the records,
\* with the Saudi and other graduates, and the totals line
AllYearsSummary(df) ==
  LET lines == SummaryTable(df, df.rows).rows
      Saudi(college) ==
        Len(SelectSeq(df.rows, LAMBDA row :
              /\ Strip(RowCell(df, row, "_College").v) = college
              /\ IsSaudi(RowCell(df, row, "Nationality"))))
      summary_df == [i \in DOMAIN lines |->
        [College |-> lines[i].College,
         TotalGraduates |-> lines[i].TotalGraduates,
         Ladies |-> lines[i].Ladies,
         Gentlemen |-> lines[i].Gentlemen,
         Saudi |-> Saudi(lines[i].College),
         NonSaudi |-> lines[i].TotalGraduates - Saudi(lines[i].College)]]
      Sum(column) == SumOver(column, DOMAIN summary_df)
  IN [rows |-> summary_df,
      total |-> [TotalGraduates |-> Sum([i \in DOMAIN summary_df |-> summary_df[i].TotalGraduates]),
                 Ladies |-> Sum([i \in DOMAIN summary_df |-> summary_df[i].Ladies]),
                 Gentlemen |-> Sum([i \in DOMAIN summary_df |-> summary_df[i].Gentlemen]),
                 Saudi |-> Sum([i \in DOMAIN summary_df |-> summary_df[i].Saudi]),
                 NonSaudi |-> Sum([i \in DOMAIN summary_df |-> summary_df[i].NonSaudi])]]

AllYearsSummaryError == "Error creating All years summary tab: 'Nationality'"

\* process_simple_mode_report: the per-year sheets, then the all-years tab,
\* which is given up with a printed error when the Nationality column is
\* missing; what it returns to the caller is the status and the file name
process_simple_mode_report(filtered_df) ==
  IF HasColumn(filtered_df, "Nationality")
    THEN [sheets |-> SimpleSheets(filtered_df)
                       \o << Sheet("All years summary", "", "",
                                   AllYearsSummary(filtered_df), {}) >>,
          printed |-> << "Successfully created All years summary tab" >>,
          result |-> [status |-> "success", file |-> "QAA_Report"]]
  ELSE [sheets |-> SimpleSheets(filtered_df),
        printed |-> << AllYearsSummaryError >>,
        result |-> [status |-> "success", file |-> "QAA_Report"]]

\* The workbook of the detailed report: the cross-tab sheets.  The sheet
\* create_gender_nationality_breakdown appends afterwards is not kept.
write_detailed_report(filtered_df, request) ==
  [sheets |-> QaaSheets(filtered_df, request), printed |-> << >>]

\* ---------------------------------------------------------------------------
\* Writing the QAA workbook from a set of filtered records
\* ---------------------------------------------------------------------------

\* The roster the filtered sets are taken from: two colleges, two terms,
\* three majors, both degree levels, statuses of the three groups and
\* statuses outside the list
ReportSheet ==
  DataFrame(
    << "Student ID", "College", "Major", "Gender", "Nationality",
       "Year/Semester of Graduation", "Current Status", "Current Workplace",
       "Current Position" >>,
    << << S("201"), S("College of Business"), S("Finance"), S("Male"),
          S("Saudi Arabia"), S("2013-2014 FALL"), S("Employed"), S("SNB"), S("CEO") >>,
       << S("G202"), S("College of Business"), S("Finance"), S("Female"),
          S("Saudi Arabia"), S("2013-2014 FALL"), S("unemployed "), PyNaN, PyNaN >>,
       << S("203"), S("College of Medicine"), S("Medicine"), S(" female"),
          S("Egypt"), S("2014-2015 Spring"), S("STUDYING"), PyNaN, PyNaN >>,
       << S("G204"), S("College of Medicine"), S("Medicine"), S("Male"),
          PyNaN, S("2013-2014 FALL"), S("Retired"), PyNaN, PyNaN >>,
       << S("205"), S("College of Business"), S("Marketing"), S("Female"),
          S("Saudi Arabia"), S("2014-2015 Spring"), S("Business owner"), S("Own"),
          S("Owner") >>,
       << S("206"), S("College of Medicine"), S("Medicine"), S("MALE "),
          S("Jordan"), S("2014-2015 Spring"), S("Employed"), S("KFSH"), S("Doctor") >>,
       << S("207"), S("College of Business"), S("Finance"), S("Male"),
          S("Saudi Arabia"), S("2013-2014 FALL"), S("Unemployed"), PyNaN, PyNaN >>,
       << S("G208"), S("College of Business"), S("Marketing"), S("N/A"),
          S("Saudi Arabia"), S("2014-2015 Spring"), S("Deceased"), PyNaN, PyNaN >>,
       << S("209"), S("College of Business"), S("Finance"), S("Female"),
          S("Saudi Arabia"), S("Summer term"), S("Employed"), S("STC"), S("Analyst") >> >>)

\* Every non-empty selection of the roster's records, as the report filters
\* hand it to the writer: loaded, its statuses cleaned
FilteredSets ==
  LET loaded == CleanStatusColumn(LoadedFrame(StripColumns(ReportSheet)))
      Chosen(chosen) == SelectSeq([i \in DOMAIN loaded.rows |-> i], LAMBDA i : i \in chosen)
  IN {[loaded EXCEPT !.rows = [k \in DOMAIN Chosen(chosen) |-> loaded.rows[Chosen(chosen)[k]]]]
        : chosen \in (SUBSET DOMAIN loaded.rows) \ {{}}}

\* The requests the filtered sets come from: both colleges, both terms, and a
\* degree option that the set has passed
WriterRequests ==
  [colleges : {<< "College of Business", "College of Medicine" >>},
   years : {<< "2013-2014 FALL", "2014-2015 Spring", "Summer term" >>},
   degree_option : DegreeChoices, gender_option : {"all"},
   nationality_option : {PyStr("all")}, mode_option : {"detailed", "simple"},
   combine : CombineChoices]

InitWriter ==
  /\ arg \in [df : FilteredSets, request : WriterRequests]
  /\ DegreeFilter(arg.df, arg.request.degree_option) = arg.df
  /\ arg.request.mode_option = "simple" =>
       arg.request.degree_option = "all" /\ arg.request.combine = << FALSE, TRUE >>
  /\ out = Unset
  /\ out2 = Unset
  /\ pc = "input"
  /\ AppStart

\* The writer of the detailed report, from "Generate a unique filename" on
WriteDetailed ==
  /\ pc = "input"
  /\ arg.request.mode_option = "detailed"
  /\ out' = write_detailed_report(arg.df, arg.request)
  /\ pc' = "detailed"
  /\ UNCHANGED << arg, out2 >>
  /\ UNCHANGED appVars

WriteSimple ==
  /\ pc = "input"
  /\ arg.request.mode_option = "simple"
  /\ out' = process_simple_mode_report(arg.df)
  /\ pc' = "simple"
  /\ UNCHANGED << arg, out2 >>
  /\ UNCHANGED appVars

NextWriter == WriteDetailed \/ WriteSimple

SpecWriter == InitWriter /\ [][NextWriter]_vars

\* ---------------------------------------------------------------------------
\* The cross-tab sheets: what they are held to
\* ---------------------------------------------------------------------------

\* The records of the filtered set that a sheet is about
CoveredRecords(sheet) ==
  SelectSeq(arg.df.rows, LAMBDA row :
    /\ sheet.college # "" =>
         Strip(RowCell(arg.df, row, "College").v) = sheet.college
    /\ sheet.year # "" =>
         Strip(RowCell(arg.df, row, "Year/Semester of Graduation").v) = sheet.year)

\* The records of a sheet in one row of it, and those of them with a status
\* out of a set
RowRecords(sheet, key) ==
  SelectSeq(CoveredRecords(sheet), LAMBDA row :
    GroupKey(arg.df, row, arg.request.combine[1] \/ arg.request.degree_option = "all") = key)

WithStatus(records, statuses) ==
  SelectSeq(records, LAMBDA row : RowCell(arg.df, row, "Current Status").v \in statuses)

CanonicalStatuses ==
  { "Employed", "Employed - add to list", "Business owner", "Training",
    "Do not contact", "Others", "Left the country", "Passed away", "Unemployed",
    "Studying", "New graduate" }

EmployedEquivalent == CanonicalStatuses \ { "Unemployed", "Studying" }

\* The cross-tab sheets just written
CrossTabSheets == IF pc = "detailed" THEN Range(out.sheets) ELSE {}

\* C12: every cross-tab sheet has a count column for each of the 11
\* canonical statuses, holding in every row the number of the row's records
\* with that status (0 where there is none), and a Total column holding the
\* number of the row's records.
C12_CanonicalColumns ==
  \A sheet \in CrossTabSheets :
    /\ CanonicalStatuses \subseteq sheet.table.status_columns
    /\ \A key \in sheet.table.index :
         /\ \A status \in CanonicalStatuses \cap sheet.table.status_columns :
              sheet.table.rows[key].counts[status] =
                Len(WithStatus(RowRecords(sheet, key), {status}))
         /\ sheet.table.rows[key].Total = Len(RowRecords(sheet, key))

\* C13: in every row of every cross-tab sheet, Employed is the number of the
\* row's records with one of the nine employed-equivalent statuses,
\* Unemployed the number with "Unemployed", Studying the number with
\* "Studying", and the three together are at most the row's Total.
C13_EmploymentColumns ==
  \A sheet \in CrossTabSheets : \A key \in sheet.table.index :
    LET row == sheet.table.rows[key]
    IN /\ row.Employed = Len(WithStatus(RowRecords(sheet, key), EmployedEquivalent))
       /\ row.Unemployed = Len(WithStatus(RowRecords(sheet, key), {"Unemployed"}))
       /\ row.Studying = Len(WithStatus(RowRecords(sheet, key), {"Studying"}))
       /\ row.Employed + row.Unemployed + row.Studying <= row.Total

\* A row with an employed-equivalent status other than "Employed" and a row
\* with a status outside the list, which no derived column counts
C13_Witness ==
  \E sheet \in CrossTabSheets : \E key, other \in sheet.table.index :
    /\ WithStatus(RowRecords(sheet, key), {"Business owner"}) # << >>
    /\ sheet.table.rows[key].Employed >= 1
    /\ sheet.table.rows[other].Employed + sheet.table.rows[other].Unemployed
         + sheet.table.rows[other].Studying < sheet.table.rows[other].Total

\* h hundredths of a percent is count / total * 100 rounded to 2 decimals
IsRounded(h, count, total) ==
  /\ 2 * (h * total - 10000 * count) <= total
  /\ 2 * (10000 * count - h * total) <= total

\* C14: in every cross-tab sheet, the Employed, Unemployed and Studying
\* Percentage of every row of a group is the row's derived count divided by
\* the sum of the Total column over the rows of the sheet, times 100, rounded
\* to 2 decimals, and 0 when that sum is 0.
C14_PercentOfGrandTotal ==
  \A sheet \in CrossTabSheets :
    LET grand == Len(CoveredRecords(sheet))
    IN \A key \in sheet.table.index :
         LET row == sheet.table.rows[key]
         IN IF grand = 0
              THEN /\ row.EmployedPercentage = 0
                   /\ row.UnemployedPercentage = 0
                   /\ row.StudyingPercentage = 0
            ELSE /\ IsRounded(row.EmployedPercentage, row.Employed, grand)
                 /\ IsRounded(row.UnemployedPercentage, row.Unemployed, grand)
                 /\ IsRounded(row.StudyingPercentage, row.Studying, grand)

\* A sheet of several rows: one row's percentage is a share of all the
\* sheet's records, not of the row's own
C14_Witness ==
  \E sheet \in CrossTabSheets : \E key \in sheet.table.index :
    /\ sheet.table.rows[key].Total = 1
    /\ sheet.table.rows[key].Employed = 1
    /\ Len(CoveredRecords(sheet)) = 3
    /\ sheet.table.rows[key].EmployedPercentage = 3333

\* C15: every cross-tab sheet has an "Overall Total" row holding in every
\* column the sum of the column over the other rows, and its Total is the
\* number of records of the filtered set that the sheet is about.
C15_OverallTotal ==
  \A sheet \in CrossTabSheets :
    LET rows == sheet.table.rows
        index == sheet.table.index
        overall == sheet.table.overall
    IN /\ overall.Total = Len(CoveredRecords(sheet))
       /\ overall.Total = SumOver([key \in index |-> rows[key].Total], index)
       /\ \A status \in sheet.table.status_columns :
            overall.counts[status] =
              SumOver([key \in index |-> rows[key].counts[status]], index)
       /\ overall.Employed = SumOver([key \in index |-> rows[key].Employed], index)
       /\ overall.Unemployed = SumOver([key \in index |-> rows[key].Unemployed], index)
       /\ overall.Studying = SumOver([key \in index |-> rows[key].Studying], index)
       /\ overall.EmployedPercentage =
            SumOver([key \in index |-> rows[key].EmployedPercentage], index)
       /\ overall.UnemployedPercentage =
            SumOver([key \in index |-> rows[key].UnemployedPercentage], index)
       /\ overall.StudyingPercentage =
            SumOver([key \in index |-> rows[key].StudyingPercentage], index)

\* A sheet about one college out of a filtered set of two: its Overall Total
\* counts that college's records of several majors and statuses
C15_Witness ==
  \E sheet \in CrossTabSheets :
    /\ sheet.college # ""
    /\ Cardinality(sheet.table.index) >= 2
    /\ Cardinality(sheet.table.status_columns) >= 3
    /\ sheet.table.overall.Total = 3
    /\ Len(arg.df.rows) > 3

\* C16: in the "Overall Total" row of every cross-tab sheet with records, the
\* three percentages together differ from (Employed + Unemployed + Studying)
\* divided by the grand total, times 100, by at most 0.01.
C16_OverallPercentages ==
  \A sheet \in CrossTabSheets :
    LET overall == sheet.table.overall
        percentages == overall.EmployedPercentage + overall.UnemployedPercentage
                         + overall.StudyingPercentage
        derived == overall.Employed + overall.Unemployed + overall.Studying
    IN overall.Total > 0 =>
         /\ percentages * overall.Total - 10000 * derived <= overall.Total
         /\ 10000 * derived - percentages * overall.Total <= overall.Total

\* ---------------------------------------------------------------------------
\* The simple-mode sheets: what they are held to
\* ---------------------------------------------------------------------------

\* The academic-year sheets just written
AcademicYearSheets ==
  IF pc = "simple" THEN {sheet \in Range(out.sheets) : sheet.year # ""} ELSE {}

\* The selected records of the academic year of a sheet, and those of them
\* whose gender, trimmed and without regard to case, is a given one
RecordsOfYear(sheet) ==
  SelectSeq(arg.df.rows, LAMBDA row :
    ExpectedAcademicYear(RowCell(arg.df, row, "Year/Semester of Graduation")) = sheet.year)

OfGender(records, gender) ==
  SelectSeq(records, LAMBDA row :
    Lower(Strip(RowCell(arg.df, row, "Gender").v)) = gender)

\* C17: in every academic-year sheet of simple mode, the TOTAL row's Total
\* Graduates is the sum of the per-college totals and the number of selected
\* records of that academic year; Gentlemen and Ladies are the numbers of
\* those records whose trimmed, case-insensitive gender is male and female;
\* and when each of them is male or female, Gentlemen + Ladies is Total
\* Graduates.
C17_SimpleTotals ==
  \A sheet \in AcademicYearSheets :
    LET lines == sheet.table.rows
        total == sheet.table.total
        records == RecordsOfYear(sheet)
    IN /\ total.TotalGraduates =
            SumOver([i \in DOMAIN lines |-> lines[i].TotalGraduates], DOMAIN lines)
       /\ total.TotalGraduates = Len(records)
       /\ total.Gentlemen = Len(OfGender(records, "male"))
       /\ total.Ladies = Len(OfGender(records, "female"))
       /\ Len(OfGender(records, "male")) + Len(OfGender(records, "female")) = Len(records)
            => total.Gentlemen + total.Ladies = total.TotalGraduates

\* A sheet of two colleges with men and women whose gender is written with
\* other case or with spaces around it, all of them counted
C17_Witness ==
  \E sheet \in AcademicYearSheets :
    /\ Len(sheet.table.rows) = 2
    /\ \E row \in Range(RecordsOfYear(sheet)) :
         RowCell(arg.df, row, "Gender").v \notin {"Male", "Female", "MALE", "FEMALE"}
    /\ sheet.table.total.Gentlemen >= 1
    /\ sheet.table.total.Ladies >= 1
    /\ sheet.table.total.Gentlemen + sheet.table.total.Ladies
         = sheet.table.total.TotalGraduates
    /\ sheet.table.total.TotalGraduates = Len(RecordsOfYear(sheet))

\* ---------------------------------------------------------------------------
\* process_banner_integration: the Banner graduates the Alumni List lacks
\* ---------------------------------------------------------------------------

NoBannerError ==
  "No Banner data found for your session. Please upload the Banner Excel file first."

NoAlumniError ==
  "No Alumni List data found for your session. Please upload the Alumni List Excel file first."

NoNewGraduates ==
  "No new graduates found in Banner that are not already in the Alumni List."

\* The table without the pairs that rename a field
field_mapping_SameNames ==
  << << "Student ID", "Student ID" >>, << "Student Name", "Student Name" >>,
     << "College", "College" >>, << "Degree", "Degree" >>, << "Major", "Major" >>,
     << "Minor", "Minor" >>, << "Concentration", "Concentration" >>,
     << "Nationality", "Nationality" >>, << "SSN", "SSN" >>, << "Gender", "Gender" >>,
     << "Alfaisal Email", "Alfaisal Email" >>, << "Personal Email", "Personal Email" >>,
     << "Phone Number", "Phone Number" >> >>

\* The pairs of a Banner field and the Alumni field it fills
field_mapping ==
  << << "Graduation Term", "Year/Semester of Graduation" >>,
     << "Student ID", "Student ID" >>, << "Student Name", "Student Name" >>,
     << "College", "College" >>, << "Degree", "Degree" >>, << "Major", "Major" >>,
     << "Minor", "Minor" >>, << "Concentration", "Concentration" >>,
     << "Nationality", "Nationality" >>, << "SSN", "SSN" >>, << "Gender", "Gender" >>,
     << "Alfaisal Email", "Alfaisal Email" >>, << "Personal Email", "Personal Email" >>,
     << "Phone Number", "Phone Number" >>, << "Joined AU", "Joining date" >>,
     << "CGPA", "GPA" >> >>

\* The fields set to "" after the mapping
cleared_fields ==
  { "Current Workplace", "Current Position", "Work Industry", "Workplace Country",
    "Workplace City", "Work Email", "Work Phone", "Social Media and Events" }

\* series.astype(str).str.strip() on one cell of a cached Student ID column
StudentIdText(cell) == PyStr(Strip(cell.v))

\* set(df["Student ID"].tolist()) after the conversion
StudentIds(df) == {StudentIdText(RowCell(df, row, "Student ID")).v : row \in Range(df.rows)}

\* new_students_df: the Banner rows whose identifier the Alumni List lacks
NewStudents(banner_df, alumni_df) ==
  SelectSeq(banner_df.rows, LAMBDA row :
    StudentIdText(RowCell(banner_df, row, "Student ID")).v
      \in StudentIds(banner_df) \ StudentIds(alumni_df))

\* new_record[col] at the end of the loop body, for a column of the Alumni
\* List; the keys that are no column of it are dropped by
\* pd.DataFrame(new_alumni_records, columns=alumni_columns)
NewRecordCell(banner_df, row, col, current_date) ==
  LET sources == SelectSeq(field_mapping, LAMBDA pair :
                   pair[2] = col /\ HasColumn(banner_df, pair[1]))
  IN IF col = "Comments" THEN PyStr("Added from Banner on " \o current_date)
     ELSE IF col = "Current Status" THEN PyStr("New graduate")
     ELSE IF col \in cleared_fields THEN PyStr("")
     ELSE IF sources # << >> THEN RowCell(banner_df, row, sources[Len(sources)][1])
     ELSE PyStr("")

\* new_alumni_df: one record per row of new_students_df
NewAlumniRecords(banner_df, alumni_df, current_date) ==
  LET new_students_df == NewStudents(banner_df, alumni_df)
  IN [k \in DOMAIN new_students_df |->
        [j \in DOMAIN alumni_df.columns |->
           NewRecordCell(banner_df, new_students_df[k], alumni_df.columns[j], current_date)]]

\* os.path.splitext(alumni_file)[0] for the names uploaded here
BaseName(file_name) ==
  IF EndsWith(file_name, ".xlsx") THEN SubSeq(file_name, 1, Len(file_name) - 5)
  ELSE IF EndsWith(file_name, ".xls") THEN SubSeq(file_name, 1, Len(file_name) - 4)
  ELSE file_name

\* What process_banner_integration answers from the two cached frames; the
\* eight hexadecimal digits of the file name are written <id>
process_banner_integration(banner_df, alumni_df, alumni_file, current_date) ==
  IF ~HasColumn(banner_df, "Student ID")
    THEN [status |-> "error",
          error |-> "Student ID column not found in Banner data. Please check your file format."]
  ELSE IF ~HasColumn(alumni_df, "Student ID")
    THEN [status |-> "error",
          error |-> "Student ID column not found in Alumni List data. Please check your file format."]
  ELSE IF StudentIds(banner_df) \ StudentIds(alumni_df) = {}
    THEN [status |-> "success", message |-> NoNewGraduates, new_records |-> 0,
          banner_records |-> Len(banner_df.rows), alumni_records |-> Len(alumni_df.rows),
          new_students |-> << >>]
  ELSE LET new_alumni_records == NewAlumniRecords(banner_df, alumni_df, current_date)
           new_students_df == NewStudents(banner_df, alumni_df)
           combined_df == [alumni_df EXCEPT !.rows = alumni_df.rows \o new_alumni_records]
       IN [status |-> "success",
           file |-> BaseName(alumni_file) \o "_Updated_<id>.xlsx",
           new_records |-> Len(new_alumni_records),
           banner_records |-> Len(banner_df.rows),
           alumni_records |-> Len(alumni_df.rows),
           combined_records |-> Len(combined_df.rows),
           new_students |-> [k \in DOMAIN new_students_df |->
                               << RowCell(banner_df, new_students_df[k], "Student ID"),
                                  RowCell(banner_df, new_students_df[k], "Student Name") >>],
           combined_df |-> combined_df]

\* ---------------------------------------------------------------------------
\* The banner diff of two uploaded workbooks
\* ---------------------------------------------------------------------------

\* A Banner export: a graduate the roster has, with a padded identifier, a
\* graduate on two rows, one for each major, and a graduate on one row
BannerGraduates ==
  DataFrame(
    << "Student ID", "Student Name", "College", "Graduation Term", "Major", "Gender",
       "Nationality", "CGPA", "Joined AU" >>,
    << << S(" 201 "), S("Ali"), S("College of Business"), S("2013-2014 FALL"),
          S("Finance"), S("Male"), S("Saudi Arabia"), S("3.5"), S("2009") >>,
       << S("G301"), S("Huda"), S("College of Pharmacy"), S("2024-2025 FALL"),
          S("Pharmacy"), S("Female"), PyNaN, PyNaN, PyNaN >>,
       << S("G301"), S("Huda"), S("College of Pharmacy"), S("2024-2025 FALL"),
          S("Clinical Pharmacy"), S("Female"), PyNaN, S("3.9"), PyNaN >>,
       << S("302"), S("Omar"), S("College of Business"), S("2024-2025 FALL "),
          S("Marketing"), S("Male"), S("Egypt"), S("3.1"), S("2020") >> >>)

\* An Alumni List with columns the mapping fills, columns it does not, and
\* a Comments column
RosterSheet ==
  DataFrame(
    << "Student ID", "Student Name", "College", "Major", "Gender",
       "Year/Semester of Graduation", "Current Status", "Current Workplace",
       "Current Position", "Work Industry", "GPA", "Comments" >>,
    << << S("201"), S("Ali"), S("College of Business"), S("Finance"), S("Male"),
          S("2013-2014 FALL"), S("Employed"), S("SNB"), S("IT Director"),
          S("Banking"), S("3.5"), S("called in 2020") >>,
       << S("G202"), S("Sara"), S("College of Business"), S("Finance"), S("Female"),
          S("2013-2014 FALL"), S("unemployed "), PyNaN, PyNaN, PyNaN, PyNaN, PyNaN >>,
       << S("302"), S("Omar"), S("College of Business"), S("Marketing"), S("Male"),
          S("2024-2025 FALL"), S("New graduate"), PyNaN, PyNaN, PyNaN, S("3.1"),
          PyNaN >> >>)

\* The rows of a sheet at the chosen places, in the sheet's order
RowsAt(df, chosen) ==
  LET places == SelectSeq([i \in DOMAIN df.rows |-> i], LAMBDA i : i \in chosen)
  IN [df EXCEPT !.rows = [k \in DOMAIN places |-> df.rows[places[k]]]]

\* The Banner frames a session can hold: the export with some of its rows
BannerFrames ==
  {LoadedFrame(StripColumns(RowsAt(BannerGraduates, chosen)))
     : chosen \in (SUBSET DOMAIN BannerGraduates.rows) \ {{}}}

\* The Alumni frames a session can hold: the roster with or without its last
\* record, its GPA column and its Comments column
AlumniFrames ==
  {LoadedFrame(StripColumns(RowsAt(sheet, chosen)))
     : sheet \in {RosterSheet, WithoutColumn(RosterSheet, "Comments"),
                  WithoutColumn(RosterSheet, "GPA")},
       chosen \in {{1, 2}, {1, 2, 3}}}

\* datetime.now().strftime("%Y-%m-%d") on the days of two runs
Dates == {"2025-01-31", "2025-02-01"}

InitBanner ==
  /\ arg \in [banner_df : BannerFrames, alumni_df : AlumniFrames,
              alumni_file : {"alumni.xlsx"}, current_date : Dates]
  /\ out = Unset
  /\ out2 = Unset
  /\ pc = "input"
  /\ AppStart

\* The diff of the two frames
BannerDiff ==
  /\ pc = "input"
  /\ out' = process_banner_integration(arg.banner_df, arg.alumni_df, arg.alumni_file,
                                       arg.current_date)
  /\ pc' = "diffed"
  /\ UNCHANGED << arg, out2, appVars >>

NextBanner == BannerDiff

SpecBanner == InitBanner /\ [][NextBanner]_vars

\* C19: the number of new records of a banner diff is the number of student
\* identifiers that the Banner dataset has and the Alumni dataset lacks, also
\* when an identifier is on several Banner rows.
C19_NewRecordCount ==
  pc = "diffed" /\ out.status = "success" =>
    out.new_records =
      Cardinality(StudentIds(arg.banner_df) \ StudentIds(arg.alumni_df))

\* The new records of the diff just made: the rows after the Alumni rows
NewRecordsOut ==
  IF pc = "diffed" /\ out.status = "success" /\ out.new_records > 0
    THEN SubSeq(out.combined_df.rows, Len(arg.alumni_df.rows) + 1,
                Len(out.combined_df.rows))
  ELSE << >>

\* The Banner field that fills an Alumni field, "" when none does
ExpectedSource(col) ==
  IF col = "Year/Semester of Graduation" THEN "Graduation Term"
  ELSE IF col = "Joining date" THEN "Joined AU"
  ELSE IF col = "GPA" THEN "CGPA"
  ELSE IF col \in { "Student ID", "Student Name", "College", "Degree", "Major", "Minor",
                    "Concentration", "Nationality", "SSN", "Gender", "Alfaisal Email",
                    "Personal Email", "Phone Number" } THEN col
  ELSE ""

\* The Banner rows of the new records, in the Banner order
ExpectedNewStudents ==
  SelectSeq(arg.banner_df.rows, LAMBDA row :
    \A other \in Range(arg.alumni_df.rows) :
      RowCell(arg.banner_df, row, "Student ID") # RowCell(arg.alumni_df, other, "Student ID"))

\* The fields of every new record other than Comments are as the mapping
\* says, over the Alumni columns in their order, after the Alumni rows
NewRecordsShaped ==
  pc = "diffed" /\ out.status = "success" /\ out.new_records > 0 =>
    /\ out.combined_df.columns = arg.alumni_df.columns
    /\ SubSeq(out.combined_df.rows, 1, Len(arg.alumni_df.rows)) = arg.alumni_df.rows
    /\ Len(NewRecordsOut) = Len(ExpectedNewStudents)
    /\ \A k \in DOMAIN NewRecordsOut :
         /\ DOMAIN NewRecordsOut[k] = DOMAIN arg.alumni_df.columns
         /\ \A j \in DOMAIN arg.alumni_df.columns :
              LET col == arg.alumni_df.columns[j]
                  cell == NewRecordsOut[k][j]
              IN IF col = "Comments" THEN TRUE
                 ELSE IF col = "Current Status" THEN cell = PyStr("New graduate")
                 ELSE IF ExpectedSource(col) # ""
                           /\ HasColumn(arg.banner_df, ExpectedSource(col))
                   THEN cell = RowCell(arg.banner_df, ExpectedNewStudents[k],
                                       ExpectedSource(col))
                 ELSE cell = PyStr("")

\* C20 as stated: every new record has the Alumni columns in their order,
\* the mapped fields carry the Banner values, the other fields are empty,
\* Current Status is "New graduate" and Comments is the dated note; the
\* Alumni rows come first, unchanged.
C20_NewRecordShape ==
  /\ NewRecordsShaped
  /\ \A k \in DOMAIN NewRecordsOut :
       /\ HasColumn(arg.alumni_df, "Comments")
       /\ RowCell(arg.alumni_df, NewRecordsOut[k], "Comments")
            = PyStr("Added from Banner on " \o arg.current_date)

\* C20, amended: as stated, with Comments being the dated note when the
\* Alumni dataset has a Comments column; a dataset without one gets none.
C20_NewRecordShapeWithComments ==
  /\ NewRecordsShaped
  /\ \A k \in DOMAIN NewRecordsOut :
       /\ HasColumn(out.combined_df, "Comments") = HasColumn(arg.alumni_df, "Comments")
       /\ HasColumn(arg.alumni_df, "Comments") =>
            RowCell(arg.alumni_df, NewRecordsOut[k], "Comments")
              = PyStr("Added from Banner on " \o arg.current_date)

\* A new record with a renamed field filled from Banner, a field Banner has
\* no value for, and the note, behind the Alumni rows
C20_Witness ==
  /\ pc = "diffed" /\ out.status = "success"
  /\ HasColumn(arg.alumni_df, "Comments") /\ HasColumn(arg.alumni_df, "GPA")
  /\ \E k \in DOMAIN NewRecordsOut :
       /\ RowCell(arg.alumni_df, NewRecordsOut[k], "GPA") = PyStr("3.1")
       /\ RowCell(arg.alumni_df, NewRecordsOut[k], "Year/Semester of Graduation")
            = PyStr("2024-2025 FALL")
       /\ RowCell(arg.alumni_df, NewRecordsOut[k], "Work Industry") = PyStr("")
       /\ RowCell(arg.alumni_df, NewRecordsOut[k], "Current Status") = PyStr("New graduate")
       /\ RowCell(arg.alumni_df, NewRecordsOut[k], "Comments")
            = PyStr("Added from Banner on 2025-02-01")
  /\ Len(out.combined_df.rows) > Len(NewRecordsOut)

\* ---------------------------------------------------------------------------
\* Company names: the suffix words
\* ---------------------------------------------------------------------------

\* word stands in name as a token of its own: a space before it, and a space
\* or the end of the name after it
StandaloneAt(name, word, i) ==
  /\ i + Len(word) <= Len(name)
  /\ SubSeq(name, i, i + Len(word)) = " " \o word
  /\ i + Len(word) = Len(name) \/ CharAt(name, i + Len(word) + 1) = " "

HasStandaloneSuffixWord(name) ==
  \E k \in DOMAIN remove_words : \E i \in 1..Len(name) :
    StandaloneAt(name, remove_words[k], i)

\* The names that go through the removal of suffix words and through no
\* table or special case
GoesThroughRemoval(name) ==
  /\ name \notin EmptyLiterals
  /\ name \notin DOMAIN company_aliases
  /\ ~(Contains(name, "NATIONAL GUARD") /\ Contains(name, "HEALTH"))
  /\ ~Contains(name, "KING FAHAD MEDICAL")

\* C24: suffix words are removed from a company name only where they stand
\* as tokens of their own after a space; a name in which none does, though a
\* word of it begins with one, is returned whole, trimmed and in upper case.
C24_StandaloneSuffixWords ==
  (pc # "input" /\ IsStr(arg)) =>
    LET name == Upper(Strip(arg.v))
    IN (GoesThroughRemoval(name) /\ ~HasStandaloneSuffixWord(name))
         => out = PyStr(name)

\* ---------------------------------------------------------------------------
\* Job titles: the order of the scan
\* ---------------------------------------------------------------------------

\* The key at place j of the table is in the title as whole words and, when
\* it is HEAD, CHIEF or OWNER, the title holds a context word
QualifiesAt(j, title) ==
  /\ WholeWordIn(high_position_mapping[j][1], title)
  /\ high_position_mapping[j][1] \in {"HEAD", "CHIEF", "OWNER"}
       => \E context \in {"OF", "DEPARTMENT", "DIVISION", "TEAM"} : Contains(title, context)

\* C25: a title that is no exact key is given the canonical form of the first
\* key, in the order of the table, that is in it as whole words and passes
\* the context rule, whatever later keys are in it too; and None when no key
\* is.
C25_FirstKeyWins ==
  (pc = "once" /\ IsStr(arg)) =>
    LET title == Upper(Strip(arg.v))
        qualifying == {j \in 1..Len(high_position_mapping) : QualifiesAt(j, title)}
    IN (title # "" /\ title \notin placeholder_positions /\ ~IsExactPosition(title)) =>
         IF qualifying = {} THEN out = PyNone
         ELSE out = PyStr(high_position_mapping[
                  CHOOSE j \in qualifying : \A other \in qualifying : j <= other][2])

\* ---------------------------------------------------------------------------
\* The QAA report in simple mode: what decides it
\* ---------------------------------------------------------------------------

\* The request with other degree, gender and nationality options
WithOptions(request, degree_option, gender_option, nationality_option) ==
  [request EXCEPT !.degree_option = degree_option, !.gender_option = gender_option,
                  !.nationality_option = nationality_option]

\* The per-year and all-years sheets of an outcome, none for an error
SimpleCounts(outcome) ==
  IF outcome.status = "success" THEN process_simple_mode_report(outcome.selected).sheets
  ELSE << >>

\* C29: in simple mode the QAA report depends on the colleges and terms
\* only: with any other degree, gender and nationality option the same
\* request on the same dataset has the same outcome, empty or not, and the
\* same per-year and all-years counts.
C29_SimpleModeIgnoresOptions ==
  (result # NoResult /\ result.op = "qaa" /\ result.request.mode_option = "simple") =>
    \A degree_option \in DegreeChoices, gender_option \in GenderChoices,
       nationality_option \in NationalityChoices :
      LET other == process_qaa_report(result.session_id,
                     WithOptions(result.request, degree_option, gender_option,
                                 nationality_option))
      IN /\ other.status = result.status
         /\ other.error = result.error
         /\ SimpleCounts(other) = SimpleCounts(result)

\* A simple-mode report asked with master, Female and saudi that counts
\* bachelor, male and non-Saudi graduates
C29_Witness ==
  /\ result # NoResult /\ result.op = "qaa" /\ result.status = "success"
  /\ result.request.mode_option = "simple"
  /\ result.request.degree_option = "master"
  /\ result.request.gender_option = "Female"
  /\ result.request.nationality_option = PyStr("saudi")
  /\ HasColumn(result.selected, "Nationality")
  /\ \E row \in Range(result.selected.rows) :
       ~StartsWithG(RowCell(result.selected, row, "Student ID"))
  /\ \E row \in Range(result.selected.rows) :
       ~GenderIs(RowCell(result.selected, row, "Gender"), "Female")
  /\ \E row \in Range(result.selected.rows) :
       ~IsSaudi(RowCell(result.selected, row, "Nationality"))
  /\ Len(SimpleCounts(result)) >= 2

\* ---------------------------------------------------------------------------
\* Records with a status outside the list
\* ---------------------------------------------------------------------------

\* The sheet of the workbook a session was uploaded from, its headers trimmed
UploadedSheet(session_id) ==
  LET file == CHOOSE f \in Files : f.filename = session_data[session_id].file_name
  IN StripColumns(DataFrame(file.columns, file.rows))

\* The canonical form of a status cell of a sheet: trimmed, in lower case,
\* the first character in upper case; a missing cell counts as empty
CanonicalStatus(cell) ==
  IF IsStr(cell) THEN Capitalize(Lower(Strip(cell.v))) ELSE ""

\* A cached cell is the cell of the sheet, at most filled or trimmed
SameValue(cached, raw) ==
  IF IsStr(raw) THEN cached \in {raw, PyStr(Strip(raw.v))}
  ELSE cached \in {raw, PyStr("")}

\* The request lets every college, term, degree, gender and nationality of
\* the model's rosters through
IsWideOpen(request) ==
  /\ request.colleges = << "College of Business", "College of Medicine" >>
  /\ request.years = << "2013-2014 FALL", "2014-2015 Spring" >>
  /\ request.degree_option = "all"
  /\ request.gender_option = "all"
  /\ request.nationality_option \in {PyNone, PyStr("all")}

\* The records counted by the Total columns of the sheets of a detailed report
CountedRecords(selected, request) ==
  LET sheets == write_detailed_report(selected, request).sheets
  IN SumOver([i \in DOMAIN sheets |-> sheets[i].table.overall.Total], DOMAIN sheets)

UnknownYearRecords ==
  SelectSeq(arg.df.rows, LAMBDA row :
    ExpectedAcademicYear(RowCell(arg.df, row, "Year/Semester of Graduation")) = "Unknown")

\* Whether what the report hands back to its caller says anything besides
\* the file: an error, or a non-empty list of warnings
HasNoticeSurface(response) ==
  \/ response.status = "error"
  \/ "error" \in DOMAIN response
  \/ "warnings" \in DOMAIN response /\ response.warnings # << >>

\* C28: in simple mode the records whose academic year is "Unknown" are in
\* no per-year sheet (the per-year totals add up to the records that have a
\* year), and when there are such records the result handed to the caller
\* carries a warning or an error that makes them visible.
C28_UnknownYearsSurfaced ==
  pc = "simple" =>
    /\ \A sheet \in AcademicYearSheets : sheet.year # "Unknown"
    /\ SumOver([i \in DOMAIN out.sheets |->
                  IF out.sheets[i].year # "" THEN out.sheets[i].table.total.TotalGraduates
                  ELSE 0], DOMAIN out.sheets)
         = Len(arg.df.rows) - Len(UnknownYearRecords)
    /\ UnknownYearRecords # << >> => HasNoticeSurface(out.result)

\* The half of C28 the writer keeps: no per-year sheet holds a record
\* without an academic year
UnknownYearsInNoSheet ==
  pc = "simple" =>
    /\ \A sheet \in AcademicYearSheets : sheet.year # "Unknown"
    /\ SumOver([i \in DOMAIN out.sheets |->
                  IF out.sheets[i].year # "" THEN out.sheets[i].table.total.TotalGraduates
                  ELSE 0], DOMAIN out.sheets)
         = Len(arg.df.rows) - Len(UnknownYearRecords)

\* ---------------------------------------------------------------------------
\* The previews
\* ---------------------------------------------------------------------------

SessionNotFound == "Session not found. Please upload your file again."

\* The previews have no try/except: a failed column lookup leaves the route
\* as an exception, which Flask answers with status 500
InternalServerError == "500 Internal Server Error"

\* df[df["_College"].isin(colleges) & df["_Year"].isin(years)]
PreviewByTerm(df, request) ==
  FilterRows(df, {row \in Range(df.rows) :
    /\ IsInList(RowCell(df, row, "_College"), request.colleges)
    /\ IsInList(RowCell(df, row, "_Year"), request.years)})

\* The columns a preview looks up besides the cleaned ones
PreviewColumns(request, others) ==
  others
    \cup (IF Lower(request.gender_option) # "all" THEN {"Gender"} ELSE {})
    \cup (IF ReadsNationality(request.nationality_option) THEN {"Nationality"} ELSE {})

\* What a preview answers: the error, or the number of records it counted;
\* the per-college, per-gender and per-status counts are not kept
PreviewAnswer(total) ==
  Success(NoFrame, "", << >>, [kind |-> "preview", total |-> total])

\* qaa_preview: total_records
qaa_preview(session_id, request) ==
  IF session_id \notin DOMAIN session_data THEN Failure(SessionNotFound, << >>)
  ELSE LET df == session_data[session_id].data
           read == PreviewColumns(request,
                     IF request.mode_option = "simple" THEN {"Gender"}
                     ELSE {"_CurrentStatus"})
       IN IF \E col \in read : ~HasColumn(df, col)
            THEN Failure(InternalServerError, << >>)
          ELSE PreviewAnswer(Len(
                 DegreeFilter(
                   SaudiFilter(GenderFilter(PreviewByTerm(df, request),
                                            request.gender_option),
                               request.nationality_option),
                   request.degree_option).rows))

\* alumni_list_preview: total_alumni; the status filter compares the cleaned
\* status column with the labels as the request gives them
alumni_list_preview(session_id, request) ==
  IF session_id \notin DOMAIN session_data THEN Failure(SessionNotFound, << >>)
  ELSE LET df == session_data[session_id].data
           read == PreviewColumns(request, {"_CurrentStatus", "Gender"})
       IN IF \E col \in read : ~HasColumn(df, col)
            THEN Failure(InternalServerError, << >>)
          ELSE LET by_nationality ==
                     SaudiFilter(GenderFilter(DegreeFilter(PreviewByTerm(df, request),
                                                           request.degree_option),
                                              request.gender_option),
                                 request.nationality_option)
               IN PreviewAnswer(Len(
                    FilterRows(by_nationality, {row \in Range(by_nationality.rows) :
                      IsInList(RowCell(df, row, "_CurrentStatus"),
                               request.status_options)}).rows))

\* workplace_preview: total_alumni of get_workplace_statistics
workplace_preview(session_id, request) ==
  IF session_id \notin DOMAIN session_data THEN Failure(SessionNotFound, << >>)
  ELSE LET df == session_data[session_id].data
       IN IF ~HasColumn(df, "Current Workplace")
            THEN Failure(InternalServerError, WorkplacePrinted(df, request))
          ELSE Success(NoFrame, "", WorkplacePrinted(df, request),
                       [kind |-> "preview",
                        total |-> get_workplace_statistics(df, request).total_alumni])

\* ---------------------------------------------------------------------------
\* generate_banner_integration on two sessions
\* ---------------------------------------------------------------------------

\* banner_df["Student ID"] = banner_df["Student ID"].astype(str).str.strip(),
\* written into the cached frame itself
WithStudentIdText(df) ==
  SetColumn(df, "Student ID",
    [i \in DOMAIN df.rows |-> StudentIdText(RowCell(df, df.rows[i], "Student ID"))])

\* The cache after the call: both frames have their identifiers rewritten
\* once both sessions and both Student ID columns are found
BannerCached(banner_session_id, alumni_session_id) ==
  IF /\ banner_session_id \in DOMAIN session_data
     /\ alumni_session_id \in DOMAIN session_data
     /\ HasColumn(session_data[banner_session_id].data, "Student ID")
     /\ HasColumn(session_data[alumni_session_id].data, "Student ID")
    THEN [sid \in DOMAIN session_data |->
            IF sid \in {banner_session_id, alumni_session_id}
              THEN [session_data[sid] EXCEPT !.data = WithStudentIdText(@)]
            ELSE session_data[sid]]
  ELSE session_data

\* The answer of the call, from the session lookups on
BannerAnswer(banner_session_id, alumni_session_id, current_date) ==
  IF banner_session_id \notin DOMAIN session_data THEN Failure(NoBannerError, << >>)
  ELSE IF alumni_session_id \notin DOMAIN session_data THEN Failure(NoAlumniError, << >>)
  ELSE LET answer == process_banner_integration(
                       session_data[banner_session_id].data,
                       session_data[alumni_session_id].data,
                       session_data[alumni_session_id].file_name, current_date)
       IN IF answer.status = "error" THEN Failure(answer.error, << >>)
          ELSE IF answer.new_records = 0
            THEN Success(NoFrame, "", << >>, [kind |-> "banner", new_records |-> 0])
          ELSE Success(answer.combined_df, answer.file, << >>,
                       [kind |-> "banner", new_records |-> answer.new_records])

generate_banner_integration(banner_session_id, alumni_session_id, current_date) ==
  /\ result' = Answer("banner", banner_session_id,
                      [alumni_session_id |-> alumni_session_id],
                      BannerAnswer(banner_session_id, alumni_session_id, current_date))
  /\ session_data' = BannerCached(banner_session_id, alumni_session_id)
  /\ UNCHANGED << graduation_years, now >>
  /\ UNCHANGED textVars

\* ---------------------------------------------------------------------------
\* cleanup_files and the clock
\* ---------------------------------------------------------------------------

\* timedelta.days of a difference given in hours
HoursPerDay == 24

\* The times the clock is read at, in hours since the server started
Times == {0, 23, 24}

\* As sessions_to_remove, but a session of exactly one day stays
sessions_to_remove_Older ==
  {sid \in DOMAIN session_data : now - session_data[sid].timestamp > HoursPerDay}

\* sessions_to_remove: (now - timestamp).days > 0.  The timestamp is kept as
\* text, datetime.now().isoformat(), and read back with fromisoformat, which
\* gives the same instant
sessions_to_remove ==
  {sid \in DOMAIN session_data :
     (now - session_data[sid].timestamp) \div HoursPerDay > 0}

\* cleanup_files: the old sessions leave the cache.  The removal of the old
\* uploaded and generated files, which comes first, is taken to succeed; a
\* file that cannot be removed ends the run before any session is looked at.
cleanup_files ==
  /\ session_data' = [sid \in DOMAIN session_data \ sessions_to_remove |->
                        session_data[sid]]
  /\ result' = Response("cleanup", 0, NoRequest, "success", "", NoFrame, "",
                        << >>, << >>, [kind |-> "cleanup", message |-> "Cleanup completed"])
  /\ UNCHANGED << graduation_years, now >>
  /\ UNCHANGED textVars

\* ---------------------------------------------------------------------------
\* The service: every route, with the clock moving between requests
\* ---------------------------------------------------------------------------

\* The session ids a request may name: those the uploads give out and 0, an
\* id no upload has given out
RequestIds == 0..MaxSessions

ServiceColleges == << "College of Business", "College of Medicine" >>

ServiceYears == << "2013-2014 FALL", "2014-2015 Spring" >>

ServiceQaaRequests ==
  [colleges : {ServiceColleges}, years : {ServiceYears}, degree_option : {"all"},
   gender_option : {"all"}, nationality_option : {S("all"), S("saudi")},
   mode_option : {"detailed", "simple"}, combine : {<< FALSE, TRUE >>}]

\* Status labels in canonical form and with other case and spaces
ServiceAlumniRequests ==
  [colleges : {ServiceColleges}, years : {ServiceYears}, degree_option : {"all"},
   gender_option : {"all"}, nationality_option : {S("all")},
   status_options : { << "Employed", "Unemployed" >>, << "Employed", " unemployed" >>,
                      << "Retired" >>, << >> }]

ServiceWorkplaceRequests ==
  [colleges : {ServiceColleges}, years : {ServiceYears}, degree_option : {"all"},
   gender_option : {"all"}, nationality_option : {S("all"), S("saudi")}]

ServiceQaa ==
  Idle /\ \E session_id \in RequestIds, request \in ServiceQaaRequests :
    generate_qaa_report(session_id, request)

ServiceAlumniList ==
  Idle /\ \E session_id \in RequestIds, request \in ServiceAlumniRequests :
    generate_alumni_list(session_id, request)

ServiceWorkplace ==
  Idle /\ \E session_id \in RequestIds, request \in ServiceWorkplaceRequests :
    generate_workplace_report(session_id, request)

QaaPreview ==
  /\ Idle
  /\ \E session_id \in RequestIds, request \in ServiceQaaRequests :
       result' = Answer("qaa_preview", session_id, request,
                        qaa_preview(session_id, request))
  /\ UNCHANGED << session_data, graduation_years, now >>
  /\ UNCHANGED textVars

AlumniListPreview ==
  /\ Idle
  /\ \E session_id \in RequestIds, request \in ServiceAlumniRequests :
       result' = Answer("alumni_preview", session_id, request,
                        alumni_list_preview(session_id, request))
  /\ UNCHANGED << session_data, graduation_years, now >>
  /\ UNCHANGED textVars

WorkplacePreview ==
  /\ Idle
  /\ \E session_id \in RequestIds, request \in ServiceWorkplaceRequests :
       result' = Answer("workplace_preview", session_id, request,
                        workplace_preview(session_id, request))
  /\ UNCHANGED << session_data, graduation_years, now >>
  /\ UNCHANGED textVars

BannerIntegration ==
  Idle /\ \E banner_session_id \in RequestIds, alumni_session_id \in RequestIds :
    generate_banner_integration(banner_session_id, alumni_session_id, "2025-01-31")

Cleanup == Idle /\ cleanup_files

\* Time passes between two requests
Tick ==
  /\ Idle
  /\ now' \in {t \in Times : t > now}
  /\ UNCHANGED << session_data, graduation_years, result >>
  /\ UNCHANGED textVars

InitService ==
  /\ arg = Unset
  /\ out = Unset
  /\ out2 = Unset
  /\ pc = "service"
  /\ AppStart

NextService ==
  \/ Upload
  \/ ServiceQaa
  \/ ServiceAlumniList
  \/ ServiceWorkplace
  \/ QaaPreview
  \/ AlumniListPreview
  \/ WorkplacePreview
  \/ BannerIntegration
  \/ Cleanup
  \/ Tick
  \/ Respond

SpecService == InitService /\ [][NextService]_vars

\* ---------------------------------------------------------------------------
\* The session cache: what the routes are held to
\* ---------------------------------------------------------------------------

\* The step answers a request of one of the given routes
Answers(ops) == result = NoResult /\ result'.op \in ops

C23_CacheImmutable ==
  \A sid \in DOMAIN session_data :
    session_data[sid].data = LoadedFrame(UploadedSheet(sid))

\* The rows of the list generated for the parameters of a preview
ListRows(session_id, request) ==
  LET outcome == process_alumni_list(session_id, request)
  IN IF outcome.status = "success" THEN Len(outcome.selected.rows) ELSE 0

\* C26: the total of an answered alumni-list preview is the number of rows
\* of the list generated for the same parameters, the requested status
\* labels being compared in canonical form in both.
C26_PreviewMatchesList ==
  result.op = "alumni_preview" /\ result.status = "success" =>
    result.stats.total = ListRows(result.session_id, result.request)

\* The session ids a report or banner-diff call names
NamedSessions(call) ==
  IF call.op = "banner" THEN {call.session_id, call.request.alumni_session_id}
  ELSE {call.session_id}

\* C30: a report or banner-diff call naming a session id that has no entry
\* in the cache returns an error, names no output file and leaves the cache
\* as it was.
C30_UnknownSessionRejected ==
  [][ /\ Answers({"qaa", "alumni", "workplace", "banner"})
      /\ ~(NamedSessions(result') \subseteq DOMAIN session_data)
      => /\ result'.status = "error"
         /\ result'.file = ""
         /\ session_data' = session_data
    ]_vars

\* A report is refused for a session that cleanup has evicted
C30_Witness ==
  /\ result.op \in {"qaa", "alumni", "workplace"}
  /\ result.session_id \in SessionIds
  /\ result.status = "error"
  /\ result.error = NoSessionError
  /\ result.file = ""
  /\ now = 24
  /\ graduation_years # {}
  /\ DOMAIN session_data = {}

====
